---------------------------- MODULE Spec2Model ----------------------------
(***************************************************************************)
(* Model of the Olympus agent runtime: the Hephaestus session loop         *)
(* (agents/hephaestus/agent.py, run_hephaestus_task) and the background    *)
(* job supervisor (mcp_servers/server_hephaestus.py).                      *)
(*                                                                         *)
(* Text is abstracted to atoms: every string the code inspects is a model  *)
(* value, and every string function the code applies (strip, len, "in",    *)
(* startswith, endswith, regex rewrites) is a table over those values.     *)
(***************************************************************************)
EXTENDS Integers, Sequences, FiniteSets, TLC

(***************************************************************************)
(* Bounds                                                                  *)
(***************************************************************************)
\* run_hephaestus_task(max_steps=45): the step bound, kept small here
max_steps == 2
\* the largest number of action objects the parser yields for one response
MaxCalls == 2
\* the largest number of fenced blocks in one response
MaxBlocks == 2
\* the largest number of changed files git reports at a finish
MaxDirty == 1
\* the number of assign_task_async calls in the job-table specification
MaxCreates == 2
\* the largest number of argument keys of an action in the validator specification
MaxKeys == 3
\* the number of steps of a session of test runs and edits
MaxRuns == 4

(***************************************************************************)
(* Generic helpers                                                         *)
(***************************************************************************)
\* dict.get(k, d)
Get(d, k, default) == IF k \in DOMAIN d THEN d[k] ELSE default

\* dict with d[k] = v (Python item assignment)
Put(d, k, v) == [x \in DOMAIN d \cup {k} |-> IF x = k THEN v ELSE d[x]]

\* the empty dict {}
EmptyArgs == [x \in {} |-> ""]

\* all sequences over S of length at most n
RECURSIVE SeqsUpTo(_, _)
SeqsUpTo(S, n) ==
    IF n = 0 THEN {<<>>}
    ELSE LET shorter == SeqsUpTo(S, n - 1)
         IN  shorter \cup {Append(s, x) : s \in {q \in shorter : Len(q) = n - 1}, x \in S}

(***************************************************************************)
(* Text values and the string functions the code applies to them           *)
(***************************************************************************)
\* the reserved placeholder of the "Reference Pattern"
Sentinel == "LAST_CODE_BLOCK"

\* Python None, and a dict key that was never set
None == "<None>"
Absent == "<absent>"

\* "LAST_CODE_BLOCK" in <text>
ContainsSentinel(s) == s \in {Sentinel}


\* The raw strings a tool handler can return, or RAISE when it raises instead.
\* "<check>" stands for the check-mark emoji, "<cross>" for the cross emoji.
HandlerOk == "<check> done"
HandlerErr == "<cross> failed"
HandlerPytestFail == "<cross> Command Failed: FAILURES"
HandlerRaise == "<raise>"

\* "check-mark" in raw_result or "SUCCESS" in raw_result.upper()
HasSuccessMark(raw) == raw \in {HandlerOk}

\* raw_result.replace(check, "[SUCCESS]").replace(cross, "[ERROR]")
CleanOutput(raw) ==
    CASE raw = HandlerOk -> "[SUCCESS] done"
      [] raw = HandlerErr -> "[ERROR] failed"
      [] raw = HandlerPytestFail -> "[ERROR] Command Failed: FAILURES"
      [] OTHER -> raw

\* "FAILURES" in text or "ERRORS" in text
HasFailures(text) == text \in {"[ERROR] Command Failed: FAILURES", HandlerPytestFail}

(***************************************************************************)
(* Tool registry, schemas and handler signatures                           *)
(***************************************************************************)
TOOLS ==
    {"get_jira_issue", "list_files", "read_file", "edit_file", "git_setup_workspace",
     "git_commit", "git_push", "git_pull", "create_pr", "write_file", "append_file",
     "run_command", "install_package"}

Schema(req, opt, fp) == [required |-> req, optional |-> opt, file_path |-> fp]

TOOL_SCHEMAS ==
    [get_jira_issue |-> Schema({"issue_key"}, {}, FALSE),
     git_setup_workspace |-> Schema({"issue_key"}, {"base_branch", "agent_name", "job_id"}, FALSE),
     list_files |-> Schema({}, {"directory"}, FALSE),
     read_file |-> Schema({}, {}, TRUE),
     write_file |-> Schema({"content"}, {}, TRUE),
     append_file |-> Schema({"content"}, {}, TRUE),
     edit_file |-> Schema({"target_text", "replacement_text"}, {}, TRUE),
     git_commit |-> Schema({"message"}, {}, FALSE),
     git_push |-> Schema({}, {"branch_name"}, FALSE),
     git_pull |-> Schema({}, {"branch_name"}, FALSE),
     create_pr |-> Schema({"title"}, {"body", "base_branch", "head_branch"}, FALSE),
     run_command |-> Schema({"command"}, {"cwd", "timeout"}, FALSE),
     install_package |-> Schema({"package_name"}, {}, FALSE),
     task_complete |-> Schema({}, {"issue_key", "summary", "mode"}, FALSE)]

\* the parameters of each handler function: all of them, and those without a default
Signature(all, mandatory) == [params |-> all, mandatory |-> mandatory]

HandlerSignature ==
    [get_jira_issue |-> Signature({"issue_key"}, {"issue_key"}),
     git_setup_workspace |-> Signature({"issue_key", "base_branch"}, {"issue_key"}),
     list_files |-> Signature({"directory"}, {}),
     read_file |-> Signature({"file_path"}, {"file_path"}),
     write_file |-> Signature({"file_path", "content"}, {"file_path", "content"}),
     append_file |-> Signature({"file_path", "content"}, {"file_path", "content"}),
     edit_file |-> Signature({"file_path", "target_text", "replacement_text"},
                             {"file_path", "target_text", "replacement_text"}),
     git_commit |-> Signature({"message"}, {"message"}),
     git_push |-> Signature({"branch_name"}, {"branch_name"}),
     git_pull |-> Signature({"branch_name"}, {}),
     create_pr |-> Signature({"title", "body", "base_branch", "head_branch"}, {"title"}),
     run_command |-> Signature({"command", "cwd", "timeout"}, {"command"}),
     install_package |-> Signature({"package_name"}, {"package_name"})]

\* func(**args) binds: no unexpected keyword, no missing mandatory parameter
Binds(tool_name, args) ==
    /\ DOMAIN args \subseteq HandlerSignature[tool_name].params
    /\ HandlerSignature[tool_name].mandatory \subseteq DOMAIN args

\* a set listed as the tags of a message, in a fixed order
RECURSIVE SetToSeq(_)
SetToSeq(S) ==
    IF S = {} THEN <<>>
    ELSE LET x == CHOOSE y \in S : TRUE IN <<x>> \o SetToSeq(S \ {x})

\* valid_keys of execute_tool_dynamic
ValidKeys(tool_name) ==
    LET schema == TOOL_SCHEMAS[tool_name] IN
    schema.required \cup schema.optional \cup (IF schema.file_path THEN {"file_path"} ELSE {})

\* mutant: the check for unknown argument keys is missing
UnknownArgsNone(tool_name, args) == {}

\* unknown_args = set(args.keys()) - valid_keys
UnknownArgs(tool_name, args) == DOMAIN args \ ValidKeys(tool_name)

\* mutant: the check for missing required keys is missing
MissingArgsNone(tool_name, args) == {}

\* missing = [k for k in required if k not in args]
MissingArgs(tool_name, args) == TOOL_SCHEMAS[tool_name].required \ DOMAIN args

\* mutant: the except branch drops the exception and reports nothing
LostException(tool_name) == [success |-> TRUE, output |-> <<>>, invoked |-> TRUE]

\* except Exception as e: the failure record built from the exception
CaughtException(tool_name) ==
    [success |-> FALSE, output |-> <<"Error executing", tool_name>>, invoked |-> TRUE]

\* execute_tool_dynamic(tool_name, args); raw is what the handler's body does
\* when it is reached.  invoked: the handler function was called.
execute_tool_dynamic(tool_name, args, raw) ==
    IF tool_name \notin TOOLS
    THEN [success |-> FALSE, output |-> <<"Error: Unknown tool">>, invoked |-> FALSE]
    ELSE IF tool_name \in DOMAIN TOOL_SCHEMAS /\ UnknownArgs(tool_name, args) # {}
    THEN [success |-> FALSE,
          output |-> <<"[ERROR] Invalid arguments">> \o SetToSeq(UnknownArgs(tool_name, args)),
          invoked |-> FALSE]
    ELSE IF tool_name \in DOMAIN TOOL_SCHEMAS /\ MissingArgs(tool_name, args) # {}
    THEN [success |-> FALSE,
          output |-> <<"[ERROR] Missing required arguments">>
                       \o SetToSeq(MissingArgs(tool_name, args)),
          invoked |-> FALSE]
    ELSE IF ~Binds(tool_name, args)
    THEN [success |-> FALSE, output |-> <<"Error executing", tool_name, "TypeError">>,
          invoked |-> FALSE]
    ELSE IF raw = HandlerRaise
    THEN CaughtException(tool_name)
    ELSE [success |-> HasSuccessMark(raw), output |-> <<CleanOutput(raw)>>, invoked |-> TRUE]

(***************************************************************************)
(* Model responses: fenced blocks and parsed action objects                *)
(***************************************************************************)
\* bodies of fenced blocks as the block regex captures them (group 1)
BlockA == "aaaaaaaaa\n"
BlockB == "b\n"
BlockBlank == " \n"
BlockJson == "{action: ...}\n"

\* str.strip()
Strip(text) ==
    CASE text = BlockA -> "aaaaaaaaa"
      [] text = BlockB -> "b"
      [] text = BlockBlank -> ""
      [] text = BlockJson -> "{action: ...}"
      [] OTHER -> text

\* len(text)
TextLen(text) ==
    CASE text = BlockA -> 10
      [] text = BlockB -> 2
      [] text = BlockBlank -> 2
      [] text = BlockJson -> 14
      [] text = "aaaaaaaaa" -> 9
      [] text = "b" -> 1
      [] text = "lit" -> 3
      [] text = "<fence>lit<fence>" -> 11
      [] text = Sentinel -> 15
      [] OTHER -> 0

\* the action marker (the quoted word action followed by a colon) occurs in text
HasActionMarker(text) == text \in {BlockJson, "{action: ...}"}

\* the triple backquote occurs in text
HasFence(text) == text \in {"<fence>lit<fence>"}

\* the two re.sub calls of the markdown stripper, then strip()
StripFence(text) == IF text = "<fence>lit<fence>" THEN "lit" ELSE Strip(text)

\* a parsed action object whose "args" value is not a JSON object
NotADict == [x \in {"<not a dict>"} |-> ""]
IsDict(args) == args # NotADict

ToolCall(action, args) == [action |-> action, args |-> args]

\* what the two recovery regexes of the malformed-JSON path find in the text
NoMatch == "<no match>"
Malformed(action, path) == [action |-> action, file_path |-> path]
NoMalformed == Malformed(NoMatch, NoMatch)

\* A response: the action objects the parser yields, the fenced blocks in
\* text order, and (when no object parses although the text has an action
\* marker) what the recovery regexes match.
Response(calls, blocks, malformed) ==
    [calls |-> calls, blocks |-> blocks, malformed |-> malformed]

\* path tables: str.lower() is the identity on the model's paths
EndsWithMd(path) == path \in {"docs/specs.md", "docs/notes.md", "README.md", "./docs/notes.md"}
EndsWithPy(path) == path \in {"src/main.py", "tests/test_main.py", "./src/main.py"}
StartsWithDocs(path) == path \in {"docs/specs.md", "docs/notes.md"}
StartsWithSrcOrTests(path) == path \in {"src/main.py", "tests/test_main.py"}

\* _get_safe_path: os.path.abspath(os.path.join(base_dir, file_path)), given
\* here relative to the workspace
SafePath(path) ==
    CASE path = "./src/main.py" -> "src/main.py"
      [] path = "./docs/notes.md" -> "docs/notes.md"
      [] OTHER -> path

\* action.endswith("_file")
EndsWithFile(action) == action \in {"write_file", "append_file", "edit_file", "read_file"}

\* any(t.get("action") == "task_complete" for t in tool_calls)
is_task_finishing(tool_calls) ==
    \E i \in 1..Len(tool_calls) : tool_calls[i].action = "task_complete"

\* sorted(blocks, key=len, reverse=True): stable, longest first
RECURSIVE InsertByLen(_, _)
InsertByLen(x, sorted) ==
    IF sorted = <<>> THEN <<x>>
    ELSE IF TextLen(Head(sorted)) >= TextLen(x)
         THEN <<Head(sorted)>> \o InsertByLen(x, Tail(sorted))
         ELSE <<x>> \o sorted

RECURSIVE SortByLenDesc(_)
SortByLenDesc(blocks) ==
    IF blocks = <<>> THEN <<>>
    ELSE InsertByLen(blocks[Len(blocks)], SortByLenDesc(SubSeq(blocks, 1, Len(blocks) - 1)))

\* [b for b in all_code_blocks if <action marker> not in b]
IsPayload(b) == ~HasActionMarker(b)
valid_code_blocks(blocks) == SelectSeq(blocks, IsPayload)

\* de-duplication by json.dumps(t, sort_keys=True), first occurrence kept
RECURSIVE unique_tools(_)
unique_tools(tool_calls) ==
    IF tool_calls = <<>> THEN <<>>
    ELSE LET init == unique_tools(SubSeq(tool_calls, 1, Len(tool_calls) - 1))
             t == tool_calls[Len(tool_calls)]
         IN  IF \E i \in 1..Len(init) : init[i] = t THEN init ELSE Append(init, t)

(***************************************************************************)
(* The sandbox and what the session observes of the workspace              *)
(***************************************************************************)
\* run_sandbox_command returns the command's output under a header line;
\* an output is modelled as its sequence of lines
SuccessHeader == "<check> Command Success:"
FailedHeader == "<cross> Command Failed (Exit Code n):"
SandboxSuccess(lines) == <<SuccessHeader>> \o lines
SandboxFailed(out, err) == <<FailedHeader>> \o out \o <<"ERROR LOG:">> \o err

\* lines of git status --porcelain, one per changed file: XY code, then the path
StatusLines == {" M f1", "?? f2", "MM f3"}

\* line.strip()[:2].strip()
ColumnCode(line) ==
    CASE line = " M f1" -> "M"
      [] line = "?? f2" -> "??"
      [] line = "MM f3" -> "MM"
      [] OTHER -> "<other>"

\* the codes the cleanliness check counts as dirty
DirtyCodes == {"??", "M", "A", "D", "R", "C", "U"}

\* git clean -nd prints one line per untracked file
WouldRemove(line) == "Would remove " \o line
HasWouldRemove(line) == \E l \in StatusLines : line = WouldRemove(l)

\* the states of the workspace a finish can meet: at most MaxDirty changed files
Workspaces == {w \in SUBSET StatusLines : Cardinality(w) <= MaxDirty}

\* git clean -nd and git status --porcelain in workspace w, through the sandbox
clean_preview(w) == SandboxSuccess(SetToSeq({WouldRemove(l) : l \in {x \in w : ColumnCode(x) = "??"}}))
status_output(w) == SandboxSuccess(SetToSeq(w))

IsDirtyStatusLine(line) == ColumnCode(line) \in DirtyCodes

\* dirty_items of the cleanliness check
dirty_items(w) ==
    SelectSeq(clean_preview(w), HasWouldRemove) \o SelectSeq(status_output(w), IsDirtyStatusLine)

\* the truth the check is meant to establish
HasUncommitted(w) == w # {}

\* git branch --show-current, stripped: the sandbox output with its header
BranchNames == {"main", "feature/x"}
current_branch(obs) == SandboxSuccess(<<obs.branch>>)
is_main(obs) == current_branch(obs) \in {<<"main">>, <<"master">>, <<"HEAD">>}

\* git diff --name-only main...<current_branch>: git needs one revision name
IsRevision(ref) == Len(ref) = 1 /\ ref[1] \in BranchNames
diff_output(obs) ==
    IF IsRevision(current_branch(obs))
    THEN SandboxSuccess(obs.changed)
    ELSE SandboxFailed(<<>>, <<"fatal: ambiguous argument">>)

\* what git diff --name-only lists when it is given two revisions
ChangedFiles == {<<>>, <<"src/main.py">>}

\* classification of the lines of the diff output
IsSourceFile(f) == f \in {"src/main.py"}
source_files(obs) == SelectSeq(diff_output(obs), IsSourceFile)
IsOtherFile(f) == ~IsSourceFile(f)
other_files(obs) == SelectSeq(diff_output(obs), IsOtherFile)

has_changes(obs) == ~is_main(obs) /\ diff_output(obs) # <<>>

\* gh pr list --head <current_branch>
PrOutputs == {<<>>, <<"no open pull requests in repo">>, <<"12 title feature/x OPEN">>}
pr_check(obs) == SandboxSuccess(obs.pr)
NoPullRequest(obs) ==
    \/ \E i \in 1..Len(pr_check(obs)) : pr_check(obs)[i] = "no open pull requests in repo"
    \/ pr_check(obs) = <<>>

\* docker ps
DockerOutputs == {<<>>, <<"olympus-api Up 2 minutes">>}
docker_check(obs) == SandboxSuccess(obs.docker)
ShowsService(lines) == \E i \in 1..Len(lines) : lines[i] = "olympus-api Up 2 minutes"

\* command tables
ContainsPytest(cmd) == cmd \in {"pytest"}
DockerUp == "docker-compose up"
DockerUpFixed == "set DOCKER_BUILDKIT=0&& docker-compose up -d --build"
IsDeployCommand(cmd) == cmd \in {DockerUp, DockerUpFixed}

\* the auto-fix of docker commands (detached, build, BuildKit off)
AutoFixCommand(cmd) == IF cmd = DockerUp THEN DockerUpFixed ELSE cmd

\* has_deployed: a docker compose up/restart/start is in agent_action_history
has_deployed(aah) ==
    \E i \in 1..Len(aah) :
        /\ aah[i].action = "run_command"
        /\ IsDeployCommand(Get(aah[i].args, "command", ""))

\* validation_error of the finish checks once the workspace is clean
\* ("" when the finish is accepted)
validation_error(args, obs, aah) ==
    LET task_mode == Get(args, "mode", "code") IN
    IF task_mode = "code"
    THEN LET first ==
                 IF ~has_changes(obs) THEN "REJECTED: No file changes"
                 ELSE IF source_files(obs) = <<>> /\ other_files(obs) # <<>> THEN ""
                 ELSE IF ~is_main(obs) /\ NoPullRequest(obs) THEN "REJECTED: NO Pull Request"
                 ELSE ""
         IN  IF first # "" THEN first
             ELSE IF ~has_deployed(aah) THEN "REJECTED: Definition of Done failed"
             ELSE IF ~ShowsService(docker_check(obs)) THEN "REJECTED: Deployment Failed"
             ELSE ""
    ELSE ""

(***************************************************************************)
(* The session: one pass of the tool loop                                  *)
(***************************************************************************)
\* the consecutive-failure threshold of the pytest loop detector
BreakerThreshold == 2

Turn(role, content) == [role |-> role, content |-> content]

\* the assistant turn that carries the raw response text
RawTurn == Turn("assistant", <<"content">>)

\* "LAST_CODE_BLOCK" in str(args)
MentionsSentinel(args) ==
    \E k \in DOMAIN args : ContainsSentinel(k) \/ ContainsSentinel(args[k])

\* mutant: the emptiness test of the cache is dropped
CacheNeverEmpty(block) == FALSE

\* a falsy cache: None or the empty string
CacheEmpty(block) == block = None \/ block = ""

\* middleware injection of the cached block
InjectBlock(action, args, block) ==
    IF action \in {"write_file", "append_file"} THEN Put(args, "content", block)
    ELSE IF action = "edit_file" THEN Put(args, "replacement_text", block)
    ELSE args

\* the markdown stripper over content and replacement_text
StripMarkdown(args) ==
    [k \in DOMAIN args |->
        IF k \in {"content", "replacement_text"} /\ HasFence(args[k])
        THEN StripFence(args[k]) ELSE args[k]]

\* the file of the latest write/edit/append in agent_action_history
RECURSIVE last_edited_file(_)
last_edited_file(aah) ==
    IF aah = <<>> THEN "the source code"
    ELSE IF aah[Len(aah)].action \in {"write_file", "edit_file", "append_file"}
         THEN Get(aah[Len(aah)].args, "file_path", "the source code")
         ELSE last_edited_file(SubSeq(aah, 1, Len(aah) - 1))

\* no file on disk
NoFile == -1

\* The loop-carried state of one step.  ctl: how the pass for one action
\* ended (continue, break, or raise when an exception leaves the loop).
\* The other fields record what the pass did: handler_calls the calls that
\* reached a handler, dispatched their positions, requested the actions as
\* the model wrote them, succeeded the positions whose result counted as a
\* success, cache_refs how each sentinel reference ended, gates the verdicts
\* on finish actions, raised the positions whose handler raised an exception,
\* accepted_mode the task_mode of the finish action that was accepted.
LoopState(h, so, block, aah, ctf) ==
    [history |-> h, step_outputs |-> so, persistent_code_block |-> block,
     agent_action_history |-> aah, consecutive_test_failures |-> ctf,
     task_finished |-> FALSE, ctl |-> "continue",
     handler_calls |-> <<>>, dispatched |-> <<>>, requested |-> <<>>,
     succeeded |-> <<>>, cache_refs |-> <<>>, gates |-> <<>>, raised |-> <<>>,
     accepted_mode |-> ""]

\* the body of "for tool_call in unique_tools" for the i-th action of n
ToolPass(acc, i, tool_call, n, obs, job_id) ==
    LET action == tool_call.action
        args == tool_call.args
    IN
    IF ~IsDict(args) THEN [acc EXCEPT !.ctl = "raise"]
    ELSE
    LET target_file == Get(args, "file_path", "") IN
    IF action = "task_complete" THEN
        IF dirty_items(obs.ws) # <<>>
        THEN [acc EXCEPT !.history = Append(@, Turn("user", <<"FATAL: WORKSPACE IS DIRTY">>)),
                         !.gates = Append(@, "dirty"),
                         !.ctl = "continue"]
        ELSE IF validation_error(args, obs, acc.agent_action_history) # ""
        THEN [acc EXCEPT !.history = Append(@, Turn("user",
                                        <<validation_error(args, obs, acc.agent_action_history)>>)),
                         !.gates = Append(@, "rejected"),
                         !.ctl = "continue"]
        ELSE [acc EXCEPT !.task_finished = TRUE,
                         !.step_outputs = @ \o <<"Task Completed:", Get(args, "summary", "Done")>>,
                         !.gates = Append(@, "accepted"),
                         !.accepted_mode = Get(args, "mode", "code"),
                         !.ctl = "break"]
    ELSE IF action \notin TOOLS
    THEN [acc EXCEPT !.step_outputs = @ \o <<"Error: Tool not found.">>, !.ctl = "continue"]
    ELSE IF MentionsSentinel(args) /\ CacheEmpty(acc.persistent_code_block)
    THEN [acc EXCEPT !.step_outputs = @ \o <<"PRE-EXECUTION ERROR: memory is empty.">>,
                     !.cache_refs = Append(@, "empty"),
                     !.ctl = "break"]
    ELSE
    LET injected == IF MentionsSentinel(args)
                    THEN InjectBlock(action, args, acc.persistent_code_block) ELSE args
        stripped == StripMarkdown(injected)
    IN
    IF EndsWithFile(action) /\ StartsWithDocs(target_file) /\ target_file # "docs/specs.md"
    THEN [acc EXCEPT !.step_outputs = @ \o <<"FILENAME ERROR">>,
                     !.history = @ \o <<RawTurn, Turn("user", <<"FILENAME ERROR">>)>>,
                     !.ctl = "break"]
    ELSE IF EndsWithFile(action) /\ StartsWithSrcOrTests(target_file) /\ ~obs.spec_exists
    THEN [acc EXCEPT !.step_outputs = @ \o <<"POLICY VIOLATION">>,
                     !.history = @ \o <<RawTurn, Turn("user", <<"POLICY VIOLATION">>)>>,
                     !.ctl = "break"]
    ELSE IF /\ action = "write_file" /\ obs.old_len # NoFile /\ EndsWithPy(target_file)
            /\ 2 * TextLen(Get(stripped, "content", "")) < obs.old_len
    THEN [acc EXCEPT !.step_outputs = @ \o <<"SAFETY BLOCK">>, !.ctl = "break"]
    ELSE
    LET final ==
            IF action = "run_command" /\ "command" \in DOMAIN stripped
            THEN Put(stripped, "command", AutoFixCommand(stripped["command"]))
            ELSE IF action = "git_setup_workspace"
            THEN Put(Put(stripped, "job_id", job_id), "agent_name", "hephaestus")
            ELSE stripped
        res_data == execute_tool_dynamic(action, final, obs.raw)
        flushed == action \in {"write_file", "append_file", "edit_file"} /\ res_data.success
        is_pytest == action = "run_command" /\ ContainsPytest(Get(final, "command", ""))
        failures == IF ~is_pytest THEN acc.consecutive_test_failures
                    ELSE IF \E j \in 1..Len(res_data.output) : HasFailures(res_data.output[j])
                    THEN acc.consecutive_test_failures + 1
                    ELSE 0
        aah == Append(acc.agent_action_history, ToolCall(action, final))
        warning == IF is_pytest /\ failures >= BreakerThreshold
                   THEN <<"SYSTEM INTERVENTION: STOP editing", last_edited_file(aah)>>
                   ELSE <<>>
        alert == IF n > 1 THEN <<"SYSTEM ALERT: No Batching">> ELSE <<>>
    IN  [acc EXCEPT !.agent_action_history = aah,
                    !.persistent_code_block = IF flushed THEN None ELSE @,
                    !.consecutive_test_failures = failures,
                    !.step_outputs = @ \o <<"Tool Output:">> \o res_data.output \o warning \o alert,
                    !.dispatched = Append(@, i),
                    !.requested = Append(@, tool_call),
                    !.succeeded = IF res_data.success THEN Append(@, i) ELSE @,
                    !.cache_refs = IF MentionsSentinel(args) THEN Append(@, "resolved") ELSE @,
                    !.handler_calls = IF res_data.invoked
                                      THEN Append(@, ToolCall(action, final)) ELSE @,
                    !.raised = IF res_data.invoked /\ obs.raw = HandlerRaise
                               THEN Append(@, i) ELSE @,
                    !.ctl = "break"]

\* for tool_call in unique_tools: ... (from the i-th action on)
\* mutant: the break after a dispatched action is missing
RECURSIVE RunToolsAll(_, _, _, _, _)
RunToolsAll(acc, i, tools, obs, job_id) ==
    IF i > Len(tools) THEN acc
    ELSE LET next == ToolPass(acc, i, tools[i], Len(tools), obs, job_id)
         IN  IF next.ctl = "raise" \/ next.task_finished THEN next
             ELSE RunToolsAll(next, i + 1, tools, obs, job_id)

RECURSIVE RunTools(_, _, _, _, _)
RunTools(acc, i, tools, obs, job_id) ==
    IF i > Len(tools) THEN acc
    ELSE LET next == ToolPass(acc, i, tools[i], Len(tools), obs, job_id)
         IN  IF next.ctl = "continue" THEN RunTools(next, i + 1, tools, obs, job_id)
             ELSE next

(***************************************************************************)
(* State                                                                   *)
(***************************************************************************)
VARIABLES
    JOBS,                       \* the job table: job id -> record
    threads,                    \* number of worker threads started so far
    wjob,                       \* worker thread -> the job_id it was started with
    wpc,                        \* worker thread -> where it is in background_worker
    wresult,                    \* worker thread -> value returned by the task, or the exception
    reply,                      \* what the latest check_task_status returned
    state,                      \* the session: idle, loop, waiting, returned, raised
    exit,                       \* why the session left its loop
    step,                       \* loop iterations begun (model calls made)
    history,                    \* the conversation
    persistent_code_block,      \* the content cache
    agent_action_history,       \* every dispatched action with its final arguments
    consecutive_test_failures,  \* the pytest loop detector's counter
    trace,                      \* what the latest step did
    stdio                       \* sys.stdout of the process, what each worker saved of
                                \* it, and where the text the sessions printed went

jobvars == <<JOBS, threads, wjob, wpc, wresult, reply>>
sessionvars == <<state, exit, step, history, persistent_code_block, agent_action_history,
                 consecutive_test_failures, trace, stdio>>
vars == <<JOBS, threads, wjob, wpc, wresult, reply, state, exit, step, history,
          persistent_code_block, agent_action_history, consecutive_test_failures, trace,
          stdio>>

\* the first 8 characters of a uuid4: drawn at random, never checked against the table
JobIds == {"5f0c1a2b", "9e8d7c6b"}
Threads == 1..MaxCreates

\* What a step leaves in trace: how it ended, the number n of distinct
\* actions, the payload blocks of the response, the cache before the step
\* and after the capture (memory), what the tool loop recorded, and, for a
\* model call that failed, the number of requests the client sent (attempts).
\* uncommitted: the workspace held a change during a step that judged a
\* finish action.
Trace(outcome, n, blocks, acc, uncommitted, before, memory) ==
    [outcome |-> outcome, n |-> n, blocks |-> blocks,
     dispatched |-> acc.dispatched, handler_calls |-> acc.handler_calls,
     requested |-> acc.requested, succeeded |-> acc.succeeded,
     cache_refs |-> acc.cache_refs, gates |-> acc.gates, raised |-> acc.raised,
     accepted_mode |-> acc.accepted_mode,
     uncommitted |-> uncommitted, before |-> before, memory |-> memory,
     attempts |-> 0]

\* the streams sys.stdout can name: the stream the process started with (the
\* protocol stream), sys.stderr, and the DualLogger of a worker's session;
\* Log(t) is the log file that logger writes
Stdout == <<"stdout", 0>>
Stderr == <<"stderr", 0>>
Dual(t) == <<"dual", t>>
Log(t) == <<"log", t>>
NoStream == <<"none", 0>>

NoPass == LoopState(<<>>, <<>>, None, <<>>, 0)
NoTrace == Trace("none", 0, <<>>, NoPass, FALSE, None, None)

SYSTEM_PROMPT == Turn("system", <<"SYSTEM_PROMPT">>)
TaskTurn == Turn("user", <<"task">>)

Init ==
    /\ JOBS = [id \in {} |-> 0]
    /\ threads = 0
    /\ wjob = [t \in Threads |-> Absent]
    /\ wpc = [t \in Threads |-> "unborn"]
    /\ wresult = [t \in Threads |-> Absent]
    /\ reply = <<"none">>
    /\ state = "idle"
    /\ exit = ""
    /\ step = 0
    /\ history = <<>>
    /\ persistent_code_block = None
    /\ agent_action_history = <<>>
    /\ consecutive_test_failures = 0
    /\ trace = NoTrace
    /\ stdio = [sys_stdout |-> Stdout,
                redirect_original |-> [t \in Threads |-> NoStream],
                session_original |-> [t \in Threads |-> NoStream],
                terminal |-> [t \in Threads |-> NoStream],
                closed |-> {},
                written |-> {}]

(***************************************************************************)
(* The job supervisor (server_hephaestus.py)                               *)
(***************************************************************************)
Job(status, result, error) == [status |-> status, result |-> result, error |-> error]

\* assign_task_async: a new record under a fresh uuid prefix, then a thread
\* for background_worker.  limit caps the number of calls.
assign_task_async(limit) ==
    /\ threads < limit
    /\ \E job_id \in JobIds :
          /\ JOBS' = Put(JOBS, job_id, Job("PENDING", Absent, Absent))
          /\ wjob' = [wjob EXCEPT ![threads + 1] = job_id]
    /\ threads' = threads + 1
    /\ wpc' = [wpc EXCEPT ![threads + 1] = "set_running"]
    /\ UNCHANGED <<wresult, reply>>
    /\ UNCHANGED sessionvars

\* background_worker: JOBS[job_id]["status"] = "RUNNING" (and the log line)
worker_set_running(t) ==
    /\ wpc[t] = "set_running"
    /\ JOBS' = [JOBS EXCEPT ![wjob[t]].status = "RUNNING"]
    /\ wpc' = [wpc EXCEPT ![t] = "run_task"]
    /\ UNCHANGED <<threads, wjob, wresult, reply>>
    /\ UNCHANGED sessionvars

\* background_worker: JOBS[job_id]["status"] = "COMPLETED"
worker_set_completed(t) ==
    /\ wpc[t] = "set_completed"
    /\ JOBS' = [JOBS EXCEPT ![wjob[t]].status = "COMPLETED"]
    /\ wpc' = [wpc EXCEPT ![t] = "set_result"]
    /\ UNCHANGED <<threads, wjob, wresult, reply>>
    /\ UNCHANGED sessionvars

\* background_worker: JOBS[job_id]["result"] = result
worker_set_result(t) ==
    /\ wpc[t] = "set_result"
    /\ JOBS' = [JOBS EXCEPT ![wjob[t]].result = wresult[t]]
    /\ wpc' = [wpc EXCEPT ![t] = "exited"]
    /\ UNCHANGED <<threads, wjob, wresult, reply>>
    /\ UNCHANGED sessionvars

\* the except branch of background_worker left out: the exception ends the
\* thread and the record keeps the status it had
worker_dies(t) ==
    /\ wpc[t] = "set_failed"
    /\ wpc' = [wpc EXCEPT ![t] = "exited"]
    /\ UNCHANGED <<JOBS, threads, wjob, wresult, reply>>
    /\ UNCHANGED sessionvars

\* background_worker, except branch: JOBS[job_id]["status"] = "FAILED"
worker_set_failed(t) ==
    /\ wpc[t] = "set_failed"
    /\ JOBS' = [JOBS EXCEPT ![wjob[t]].status = "FAILED"]
    /\ wpc' = [wpc EXCEPT ![t] = "set_error"]
    /\ UNCHANGED <<threads, wjob, wresult, reply>>
    /\ UNCHANGED sessionvars

\* background_worker, except branch: JOBS[job_id]["error"] = str(e)
worker_set_error(t) ==
    /\ wpc[t] = "set_error"
    /\ JOBS' = [JOBS EXCEPT ![wjob[t]].error = wresult[t]]
    /\ wpc' = [wpc EXCEPT ![t] = "exited"]
    /\ UNCHANGED <<threads, wjob, wresult, reply>>
    /\ UNCHANGED sessionvars

\* what check_task_status(job_id) returns for the table as it is
StatusReply(job_id) ==
    IF job_id \notin DOMAIN JOBS THEN <<"not found">>
    ELSE LET job == JOBS[job_id] IN
         CASE job.status = "RUNNING" -> <<"still running">>
           [] job.status = "COMPLETED" -> <<"COMPLETED", IF job.result = Absent THEN None ELSE job.result>>
           [] job.status = "FAILED" -> <<"FAILED", IF job.error = Absent THEN None ELSE job.error>>
           [] OTHER -> <<"status", job.status>>

\* check_task_status: reads the table, writes nothing
check_task_status ==
    /\ \E job_id \in JobIds : reply' = <<job_id>> \o StatusReply(job_id)
    /\ UNCHANGED <<JOBS, threads, wjob, wpc, wresult>>
    /\ UNCHANGED sessionvars

(***************************************************************************)
(* The session loop (run_hephaestus_task)                                  *)
(***************************************************************************)
\* the 20% rule on the two longest payload blocks: len(second) > len(big) * 0.2
Significant(second, big) == 5 * TextLen(second) > TextLen(big)

\* is_markdown_mode: the first action targets a .md file
is_markdown_mode(tool_calls) ==
    /\ tool_calls # <<>>
    /\ EndsWithMd(Get(tool_calls[1].args, "file_path", ""))

\* the block check rejects the response as ambiguous
Ambiguous(r) ==
    LET sorted_blocks == SortByLenDesc(valid_code_blocks(r.blocks)) IN
    /\ ~is_task_finishing(r.calls)
    /\ Len(sorted_blocks) > 1
    /\ ~is_markdown_mode(r.calls)
    /\ Significant(sorted_blocks[2], sorted_blocks[1])
    /\ Len(r.calls) <= 1

\* new_code_block: the longest payload block, unless the response finishes the task
new_code_block(r) ==
    LET sorted_blocks == SortByLenDesc(valid_code_blocks(r.blocks)) IN
    IF ~is_task_finishing(r.calls) /\ sorted_blocks # <<>> THEN sorted_blocks[1] ELSE None

\* Update Memory: a new non-empty block replaces the cache
UpdateMemory(block, new) == IF new # None /\ new # "" THEN Strip(new) ELSE block

\* Smart Recovery of a malformed write_file/append_file
Recovered(r, block) ==
    IF /\ r.calls = <<>>
       /\ r.malformed.action # NoMatch /\ r.malformed.file_path # NoMatch
       /\ ~CacheEmpty(block)
       /\ r.malformed.action \in {"write_file", "append_file"}
    THEN <<ToolCall(r.malformed.action,
                    [k \in {"file_path", "content"} |->
                        IF k = "file_path" THEN r.malformed.file_path ELSE block])>>
    ELSE r.calls

\* mutant: the step's turns replace everything after the system prompt and
\* the task
ReplaceStepTurns(h, step_outputs) ==
    SubSeq(h, 1, 2) \o <<RawTurn, Turn("user", step_outputs)>>

\* Append to history: the assistant turn and the user turn of the step's outputs
AppendStepTurns(h, step_outputs) == h \o <<RawTurn, Turn("user", step_outputs)>>

\* One iteration of "for step in range(max_steps)" after the model answered r,
\* with obs what the sandbox and the handler do during it.  Returns the new
\* loop-carried state and how the iteration ended.
StepResult(h, block, aah, ctf, r, obs, job_id) ==
    LET start == LoopState(h, <<>>, block, aah, ctf)
        blocks == valid_code_blocks(r.blocks)
    IN
    IF ~is_task_finishing(r.calls) /\ r.calls # <<>> /\ ~IsDict(r.calls[1].args)
    THEN [acc |-> start, outcome |-> "raised", n |-> 0, blocks |-> blocks, memory |-> block]
    ELSE IF Ambiguous(r)
    THEN [acc |-> [start EXCEPT !.history =
                      @ \o <<RawTurn, Turn("user", <<"SYSTEM ERROR: Multiple Files Detected!">>)>>],
          outcome |-> "ambiguous", n |-> 0, blocks |-> blocks, memory |-> block]
    ELSE
    LET memory == UpdateMemory(block, new_code_block(r))
        tool_calls == Recovered(r, memory)
        captured == [start EXCEPT !.persistent_code_block = memory]
    IN
    IF tool_calls = <<>>
    THEN [acc |-> [captured EXCEPT !.history = Append(@, RawTurn)],
          outcome |-> "thought", n |-> 0, blocks |-> blocks, memory |-> memory]
    ELSE
    LET tools == unique_tools(tool_calls)
        acc == RunTools(captured, 1, tools, obs, job_id)
    IN
    IF acc.ctl = "raise"
    THEN [acc |-> acc, outcome |-> "raised", n |-> Len(tools), blocks |-> blocks,
          memory |-> memory]
    ELSE IF acc.task_finished
    THEN [acc |-> acc, outcome |-> "finished", n |-> Len(tools), blocks |-> blocks,
          memory |-> memory]
    ELSE [acc |-> [acc EXCEPT !.history = AppendStepTurns(@, acc.step_outputs)],
          outcome |-> "acted", n |-> Len(tools), blocks |-> blocks, memory |-> memory]

\* run_hephaestus_task is entered: the locals of the session
session_begin(t) ==
    /\ wpc[t] = "run_task"
    /\ state = "idle"
    /\ state' = "loop"
    /\ history' = <<SYSTEM_PROMPT, TaskTurn>>
    /\ persistent_code_block' = None
    /\ agent_action_history' = <<>>
    /\ consecutive_test_failures' = 0
    /\ step' = 0
    /\ UNCHANGED <<exit, trace, stdio>>
    /\ UNCHANGED jobvars

\* top of the loop with steps left: query_qwen(history) is called
session_call_model(t) ==
    /\ wpc[t] = "run_task"
    /\ state = "loop"
    /\ step < max_steps
    /\ step' = step + 1
    /\ state' = "waiting"
    /\ trace' = NoTrace
    /\ UNCHANGED <<exit, history, persistent_code_block, agent_action_history,
                   consecutive_test_failures, stdio>>
    /\ UNCHANGED jobvars

\* the model answered r (a request met "ok", after refused ones or none): the
\* rest of the loop iteration, to its end
session_step(t, r, obs) ==
    /\ wpc[t] = "run_task"
    /\ state = "waiting"
    /\ \E res \in {StepResult(history, persistent_code_block, agent_action_history,
                               consecutive_test_failures, r, obs, wjob[t])} :
       /\ history' = res.acc.history
       /\ persistent_code_block' = res.acc.persistent_code_block
       /\ agent_action_history' = res.acc.agent_action_history
       /\ consecutive_test_failures' = res.acc.consecutive_test_failures
       /\ trace' = Trace(res.outcome, res.n, res.blocks, res.acc,
                         res.acc.gates # <<>> /\ HasUncommitted(obs.ws),
                         persistent_code_block, res.memory)
       /\ state' = CASE res.outcome = "raised" -> "raised"
                     [] res.outcome = "finished" -> "returned"
                     [] OTHER -> "loop"
       /\ exit' = CASE res.outcome = "raised" -> "exception"
                    [] res.outcome = "finished" -> "task_finished"
                    [] OTHER -> exit
       /\ wpc' = CASE res.outcome = "raised" -> [wpc EXCEPT ![t] = "set_failed"]
                   [] res.outcome = "finished" -> [wpc EXCEPT ![t] = "set_completed"]
                   [] OTHER -> wpc
       /\ wresult' = CASE res.outcome = "raised" -> [wresult EXCEPT ![t] = "AttributeError"]
                       [] res.outcome = "finished" -> [wresult EXCEPT ![t] = None]
                       [] OTHER -> wresult
    /\ UNCHANGED <<step, JOBS, threads, wjob, reply, stdio>>

\* query_qwen: the client sends up to max_retries requests.  net[k] is what
\* the k-th request meets: "ok" (an answer streams back), "refused" (a
\* ConnectionError: sleep, next attempt), "timeout", "status" (a reply other
\* than 200) or "other" (any other exception).  Every failure comes back as a text.
max_retries == 3

RECURSIVE query_qwen_from(_, _)
query_qwen_from(net, attempt) ==
    IF attempt > max_retries
    THEN [content |-> "Error: Failed to connect after retries", attempts |-> max_retries,
          failed |-> TRUE]
    ELSE CASE net[attempt] = "refused" -> query_qwen_from(net, attempt + 1)
           [] net[attempt] = "timeout" ->
                [content |-> "Error: Timeout (Ollama took too long)", attempts |-> attempt,
                 failed |-> TRUE]
           [] net[attempt] = "status" ->
                [content |-> "Error: Server returned 500", attempts |-> attempt,
                 failed |-> TRUE]
           [] net[attempt] = "other" ->
                [content |-> "Error: exception", attempts |-> attempt, failed |-> TRUE]
           [] OTHER -> [content |-> "content", attempts |-> attempt, failed |-> FALSE]

query_qwen(net) == query_qwen_from(net, 1)

\* the model call failed inside the client: the text of the error is the
\* content of the step.  It holds no action and no fenced block, so the step
\* takes the "No valid action found" path: one assistant turn, continue.
session_llm_failed(t, net) ==
    /\ wpc[t] = "run_task"
    /\ state = "waiting"
    /\ query_qwen(net).failed
    /\ history' = Append(history, Turn("assistant", <<query_qwen(net).content>>))
    /\ state' = "loop"
    /\ trace' = [Trace("thought", 0, <<>>, NoPass, FALSE, persistent_code_block,
                       persistent_code_block)
                    EXCEPT !.attempts = query_qwen(net).attempts]
    /\ UNCHANGED <<exit, step, persistent_code_block, agent_action_history,
                   consecutive_test_failures, stdio>>
    /\ UNCHANGED jobvars

\* the model call raises: "Error querying LLM", return
session_llm_error(t) ==
    /\ wpc[t] = "run_task"
    /\ state = "waiting"
    /\ state' = "returned"
    /\ exit' = "llm_error"
    /\ trace' = [NoTrace EXCEPT !.outcome = "llm_error"]
    /\ wpc' = [wpc EXCEPT ![t] = "set_completed"]
    /\ wresult' = [wresult EXCEPT ![t] = None]
    /\ UNCHANGED <<step, history, persistent_code_block, agent_action_history,
                   consecutive_test_failures, stdio>>
    /\ UNCHANGED <<JOBS, threads, wjob, reply>>

\* the loop runs out: "FAILED: Max steps reached.", the function ends
session_max_steps(t) ==
    /\ wpc[t] = "run_task"
    /\ state = "loop"
    /\ step = max_steps
    /\ state' = "returned"
    /\ exit' = "max_steps"
    /\ trace' = [NoTrace EXCEPT !.outcome = "max_steps"]
    /\ wpc' = [wpc EXCEPT ![t] = "set_completed"]
    /\ wresult' = [wresult EXCEPT ![t] = None]
    /\ UNCHANGED <<step, history, persistent_code_block, agent_action_history,
                   consecutive_test_failures, stdio>>
    /\ UNCHANGED <<JOBS, threads, wjob, reply>>

(***************************************************************************)
(* Inputs of the session specification                                     *)
(***************************************************************************)
Args1(k1, v1) == [k \in {k1} |-> v1]
Args2(k1, v1, k2, v2) == [k \in {k1, k2} |-> IF k = k1 THEN v1 ELSE v2]
Args3(k1, v1, k2, v2, k3, v3) ==
    [k \in {k1, k2, k3} |-> IF k = k1 THEN v1 ELSE IF k = k2 THEN v2 ELSE v3]

WriteMain == ToolCall("write_file", Args2("file_path", "src/main.py", "content", Sentinel))
WriteTests == ToolCall("write_file", Args2("file_path", "tests/test_main.py", "content", Sentinel))
EditMain ==
    ToolCall("edit_file", Args3("file_path", "src/main.py", "target_text", Sentinel,
                                "replacement_text", "lit"))
RunDocker == ToolCall("run_command", Args1("command", DockerUp))
FinishCode == ToolCall("task_complete", Args1("summary", "summary-1"))
FinishAnalysis == ToolCall("task_complete", Args2("mode", "analysis", "summary", "summary-2"))
UnknownTool == ToolCall("deploy_app", EmptyArgs)
BadArgs == ToolCall("write_file", NotADict)

\* the action objects a response can carry
Calls == {WriteMain, WriteTests, EditMain, RunDocker, FinishCode, FinishAnalysis, UnknownTool, BadArgs}

\* the payload blocks a response can carry
Blocks == {BlockA, BlockB}

\* the responses of the model: parsed actions and blocks, or a malformed write
Responses ==
    {Response(c, b, NoMalformed) : c \in SeqsUpTo(Calls, MaxCalls), b \in SeqsUpTo(Blocks, MaxBlocks)}
    \cup {Response(<<>>, b, Malformed("write_file", "src/main.py")) : b \in SeqsUpTo(Blocks, 1)}

Obs(ws, branch, changed, pr, docker, raw, spec_exists, old_len) ==
    [ws |-> ws, branch |-> branch, changed |-> changed,
     pr |-> pr, docker |-> docker,
     raw |-> raw, spec_exists |-> spec_exists, old_len |-> old_len]

\* The actions of the response the tool loop can reach: the loop passes
\* over a finish (when it is rejected) and over an unknown tool, and stops at
\* the first action that is neither.
RECURSIVE Reachable(_)
Reachable(calls) ==
    IF calls = <<>> THEN {}
    ELSE IF Head(calls).action = "task_complete" \/ Head(calls).action \notin TOOLS
         THEN {Head(calls)} \cup Reachable(Tail(calls))
         ELSE {Head(calls)}

Candidates(r) ==
    IF r.calls = <<>> /\ r.malformed # NoMalformed
    THEN {ToolCall(r.malformed.action, Args1("file_path", r.malformed.file_path))}
    ELSE Reachable(r.calls)

\* What the sandbox, the remote and the handler may do during the step for r,
\* with aah the actions dispatched so far; an observation that cannot bear on
\* the step is held at one value (the gate looks at the services only after a
\* deployment command).  The branch, the diff and the pull requests take all
\* their values in the specification of the gate, below.
Observations(r, aah) ==
    LET cands == Candidates(r)
        deployed == has_deployed(aah)
        finish == \E c \in cands : c.action = "task_complete"
        code == \E c \in cands : c.action = "task_complete" /\ Get(c.args, "mode", "code") = "code"
        tool == \E c \in cands : c.action \in TOOLS /\ IsDict(c.args)
        guarded == \E c \in cands : /\ EndsWithFile(c.action) /\ IsDict(c.args)
                                    /\ StartsWithSrcOrTests(Get(c.args, "file_path", ""))
    IN  {Obs(ws, branch, changed, pr, docker, raw, spec_exists, NoFile) :
            ws \in (IF finish THEN Workspaces ELSE {{}}),
            branch \in {"feature/x"},
            changed \in {<<"src/main.py">>},
            pr \in {<<"12 title feature/x OPEN">>},
            docker \in (IF code /\ deployed THEN DockerOutputs ELSE {<<>>}),
            raw \in (IF tool THEN {HandlerOk, HandlerErr, HandlerRaise} ELSE {HandlerOk}),
            spec_exists \in (IF guarded THEN BOOLEAN ELSE {TRUE})}

\* what the requests of a failing model call meet: a timeout at once, a
\* refused connection and then a server error, or three refused connections
FailedNets ==
    {<<"timeout", "ok", "ok">>, <<"refused", "status", "ok">>,
     <<"refused", "refused", "refused">>}

(***************************************************************************)
(* Specification of one job and its session                                *)
(***************************************************************************)
Create == assign_task_async(1)
SetRunning == \E t \in Threads : worker_set_running(t)
SessionBegin == \E t \in Threads : session_begin(t)
SessionCallModel == \E t \in Threads : session_call_model(t)
SessionStep ==
    \E t \in Threads :
        /\ wpc[t] = "run_task"
        /\ state = "waiting"
        /\ \E r \in Responses : \E obs \in Observations(r, agent_action_history) :
                                 session_step(t, r, obs)
SessionLLMFailed ==
    \E t \in Threads : \E net \in FailedNets : session_llm_failed(t, net)
SessionLLMError == \E t \in Threads : session_llm_error(t)
SessionMaxSteps == \E t \in Threads : session_max_steps(t)
SetCompleted == \E t \in Threads : worker_set_completed(t)
SetResult == \E t \in Threads : worker_set_result(t)
SetFailed == \E t \in Threads : worker_set_failed(t)
SetError == \E t \in Threads : worker_set_error(t)

Next ==
    \/ Create
    \/ SetRunning
    \/ SessionBegin
    \/ SessionCallModel
    \/ SessionStep
    \/ SessionLLMFailed
    \/ SessionLLMError
    \/ SessionMaxSteps
    \/ SetCompleted
    \/ SetResult
    \/ SetFailed
    \/ SetError

Spec == Init /\ [][Next]_vars

(***************************************************************************)
(* One job with a fairly scheduled worker: the thread started by           *)
(* assign_task_async is not starved, and each model call and each tool     *)
(* call comes back, so a step that is enabled for the worker is eventually *)
(* taken.  The creation of the job is a request of the client and is not   *)
(* forced.  The responses are those of at most one action and one block.   *)
(***************************************************************************)
LiveResponses ==
    {Response(c, b, NoMalformed) : c \in SeqsUpTo(Calls, 1), b \in SeqsUpTo(Blocks, 1)}

\* whatever background_worker and its session do next on thread t
background_worker(t) ==
    \/ worker_set_running(t)
    \/ session_begin(t)
    \/ session_call_model(t)
    \/ /\ wpc[t] = "run_task"
       /\ state = "waiting"
       /\ \E r \in LiveResponses : \E obs \in Observations(r, agent_action_history) :
                                    session_step(t, r, obs)
    \/ \E net \in FailedNets : session_llm_failed(t, net)
    \/ session_llm_error(t)
    \/ session_max_steps(t)
    \/ worker_set_completed(t)
    \/ worker_set_result(t)
    \/ worker_set_failed(t)
    \/ worker_set_error(t)

Worker == \E t \in Threads : background_worker(t)

NextLive ==
    \/ Create
    \/ Worker

LiveSpec == Init /\ [][NextLive]_vars /\ \A t \in Threads : WF_vars(background_worker(t))

(***************************************************************************)
(* Specification of the job table under concurrent creates, workers and    *)
(* polls.  The session is reduced to how run_hephaestus_task ends for the  *)
(* worker: it returns (always None) or an exception leaves it.             *)
(***************************************************************************)
\* background_worker: result = run_hephaestus_task(...), or the except branch
worker_run_task(t) ==
    /\ wpc[t] = "run_task"
    /\ \E ending \in {"returns", "raises"} :
          /\ wpc' = [wpc EXCEPT ![t] = IF ending = "returns" THEN "set_completed"
                                                              ELSE "set_failed"]
          /\ wresult' = [wresult EXCEPT ![t] = IF ending = "returns" THEN None
                                                                      ELSE "AttributeError"]
    /\ UNCHANGED <<JOBS, threads, wjob, reply>>
    /\ UNCHANGED sessionvars

CreateJob == assign_task_async(MaxCreates)
Poll == check_task_status
WorkerSetRunning == \E t \in Threads : worker_set_running(t)
WorkerRunTask == \E t \in Threads : worker_run_task(t)
WorkerSetCompleted == \E t \in Threads : worker_set_completed(t)
WorkerSetResult == \E t \in Threads : worker_set_result(t)
WorkerSetFailed == \E t \in Threads : worker_set_failed(t)
WorkerSetError == \E t \in Threads : worker_set_error(t)

NextJobs ==
    \/ CreateJob
    \/ Poll
    \/ WorkerSetRunning
    \/ WorkerRunTask
    \/ WorkerSetCompleted
    \/ WorkerSetResult
    \/ WorkerSetFailed
    \/ WorkerSetError

JobSpec == Init /\ [][NextJobs]_vars

(***************************************************************************)
(* Specification of the validator: execute_tool_dynamic applied to every   *)
(* tool name and every set of argument keys of up to MaxKeys keys.         *)
(***************************************************************************)
\* the argument names of the schemas and handlers, and one no tool knows
ArgKeys ==
    UNION {TOOL_SCHEMAS[n].required \cup TOOL_SCHEMAS[n].optional : n \in DOMAIN TOOL_SCHEMAS}
        \cup {"file_path", "force"}

KeySets == {K \in SUBSET ArgKeys : Cardinality(K) <= MaxKeys}

\* an args dict with the keys K
ArgsOver(K) == [k \in K |-> "v"]

\* res_data = execute_tool_dynamic(action, args), the call and what it returned.
\* The function keeps no state between calls, so a behaviour makes one call.
tool_dispatch(tool_name, args, raw) ==
    /\ reply = <<"none">>
    /\ reply' = <<"dispatch", tool_name, args, execute_tool_dynamic(tool_name, args, raw)>>
    /\ UNCHANGED <<JOBS, threads, wjob, wpc, wresult>>
    /\ UNCHANGED sessionvars

ToolDispatch ==
    /\ reply = <<"none">>
    /\ \E tool_name \in TOOLS \cup {"deploy_app"}, K \in KeySets,
          raw \in {HandlerOk, HandlerErr, HandlerRaise} :
           tool_dispatch(tool_name, ArgsOver(K), raw)

ToolSpec == Init /\ [][ToolDispatch]_vars

(***************************************************************************)
(* Specification of one step: one iteration of the session loop applied to *)
(* every response over a wider set of actions, with every cache content,   *)
(* and with the target file absent, short or long                          *)
(***************************************************************************)
WriteTo(path) == ToolCall("write_file", Args2("file_path", path, "content", Sentinel))

StepCalls ==
    {WriteTo("src/main.py"), WriteTo("tests/test_main.py"), WriteTo("docs/specs.md"),
     WriteTo("docs/notes.md"), WriteTo("README.md"), WriteTo("./src/main.py"),
     ToolCall("append_file", Args2("file_path", "./docs/notes.md", "content", Sentinel)),
     EditMain, FinishCode}

StepResponses ==
    {Response(c, b, NoMalformed) :
        c \in SeqsUpTo(StepCalls, MaxCalls), b \in SeqsUpTo(Blocks, MaxBlocks)}
    \cup {Response(<<>>, b, Malformed("write_file", "src/main.py")) : b \in SeqsUpTo(Blocks, 1)}

\* len(old_content) of the file a write_file would replace
OldLens == {NoFile, 2, 10}

\* the cache at the start of the step
Caches == {None, "b"}

\* the file system the step meets is one file system: when the response
\* writes docs/specs.md, that file has a length exactly when it exists
OneFileSystem(r, spec_exists, old_len) ==
    (\E i \in DOMAIN r.calls : Get(r.calls[i].args, "file_path", "") = "docs/specs.md")
        => (spec_exists <=> old_len # NoFile)

step_check(r, obs, block) ==
    /\ reply = <<"none">>
    /\ OneFileSystem(r, obs.spec_exists, obs.old_len)
    /\ reply' = <<"step", r, obs, block,
                  StepResult(<<SYSTEM_PROMPT, TaskTurn>>, block, <<>>, 0, r, obs, "5f0c1a2b")>>
    /\ UNCHANGED <<JOBS, threads, wjob, wpc, wresult>>
    /\ UNCHANGED sessionvars

StepCheck ==
    /\ reply = <<"none">>
    /\ \E r \in StepResponses, block \in Caches, raw \in {HandlerOk, HandlerErr},
          spec_exists \in BOOLEAN, old_len \in OldLens :
           step_check(r, Obs({}, "feature/x", <<"src/main.py">>, <<>>, <<>>, raw,
                             spec_exists, old_len), block)

StepSpec == Init /\ [][StepCheck]_vars

(***************************************************************************)
(* Specification of a session of test runs and edits: up to MaxRuns steps, *)
(* each one run of pytest or one write, whatever the handler returns      *)
(***************************************************************************)
RunPytest == ToolCall("run_command", Args1("command", "pytest"))
WriteText(path) == ToolCall("write_file", Args2("file_path", path, "content", "b"))

\* what the handler returns: a pytest run passes, fails with the FAILURES
\* section in the text that comes back, or fails without it (a timeout, a
\* report with the section switched off or cut out by truncate_middle)
Returns(call) ==
    IF call = RunPytest THEN {HandlerOk, HandlerPytestFail, HandlerErr}
    ELSE {HandlerOk, HandlerErr}

\* one iteration of the loop for a response with the single action call
breaker_step(t, call, raw) ==
    /\ wpc[t] = "run_task"
    /\ state = "loop"
    /\ step < MaxRuns
    /\ \E res \in {StepResult(history, persistent_code_block, agent_action_history,
                               consecutive_test_failures,
                               Response(<<call>>, <<>>, NoMalformed),
                               Obs({}, "feature/x", <<"src/main.py">>, <<>>, <<>>, raw,
                                   TRUE, NoFile), wjob[t])} :
       /\ history' = res.acc.history
       /\ persistent_code_block' = res.acc.persistent_code_block
       /\ agent_action_history' = res.acc.agent_action_history
       /\ consecutive_test_failures' = res.acc.consecutive_test_failures
       /\ trace' = Trace(res.outcome, res.n, res.blocks, res.acc, FALSE,
                         persistent_code_block, res.memory)
    /\ step' = step + 1
    /\ UNCHANGED <<state, exit, stdio>>
    /\ UNCHANGED jobvars

BreakerStep ==
    \E t \in Threads :
        /\ wpc[t] = "run_task"
        /\ state = "loop"
        /\ step < MaxRuns
        /\ \E call \in {RunPytest, WriteText("src/main.py"), WriteText("tests/test_main.py")} :
              \E raw \in Returns(call) : breaker_step(t, call, raw)

NextBreaker ==
    \/ Create
    \/ SetRunning
    \/ SessionBegin
    \/ BreakerStep

BreakerSpec == Init /\ [][NextBreaker]_vars

(***************************************************************************)
(* Specification of the completion gate: one finish action judged in every *)
(* workspace, on every branch, with every diff, pull-request list and      *)
(* service list, after every short history of dispatched actions           *)
(***************************************************************************)
\* the arguments of the finish action: mode absent, code, analysis, or a
\* word the gate does not know
FinishArgs ==
    {Args1("summary", "summary-1"), Args2("mode", "code", "summary", "summary-1"),
     Args2("mode", "analysis", "summary", "summary-2"),
     Args2("mode", "review", "summary", "summary-3")}

\* the commands the session may have dispatched before the finish: one that
\* deploys, the same with an argument the schema does not know, one that
\* does not deploy
EarlierCalls ==
    {ToolCall("run_command", Args1("command", DockerUp)),
     ToolCall("run_command", Args2("command", DockerUp, "detach", "true")),
     ToolCall("run_command", Args1("command", "pytest"))}

\* what the earlier step of the session left: nothing dispatched, or the
\* pass of the tool loop for one of these commands, whatever its handler did
Earlier ==
    {NoPass} \cup
    {ToolPass(NoPass, 1, c, 1,
              Obs({}, "feature/x", <<>>, <<>>, <<>>, raw, TRUE, NoFile), "5f0c1a2b") :
        c \in EarlierCalls, raw \in {HandlerOk, HandlerErr, HandlerRaise}}

\* the pass of the tool loop for one task_complete action, after earlier
gate_check(args, obs, earlier) ==
    /\ reply = <<"none">>
    /\ reply' = <<"gate", args, obs, earlier,
                  ToolPass(LoopState(<<>>, <<>>, None, earlier.agent_action_history, 0), 1,
                           ToolCall("task_complete", args), 1, obs, "5f0c1a2b")>>
    /\ UNCHANGED <<JOBS, threads, wjob, wpc, wresult>>
    /\ UNCHANGED sessionvars

GateCheck ==
    /\ reply = <<"none">>
    /\ \E args \in FinishArgs, earlier \in Earlier, ws \in Workspaces,
          branch \in BranchNames, changed \in ChangedFiles, pr \in PrOutputs,
          docker \in DockerOutputs :
           gate_check(args, Obs(ws, branch, changed, pr, docker, HandlerOk, TRUE, NoFile),
                      earlier)

GateSpec == Init /\ [][GateCheck]_vars

(***************************************************************************)
(* Reading the actions out of a response: sanitize_json_input followed by  *)
(* _extract_all_jsons.  A response text is a sequence of pieces, each a    *)
(* stretch of characters the two functions treat as one:                   *)
(*   words      I will write the file.                                     *)
(*   open       use { here            (a brace that is never closed)       *)
(*   close      and } there                                                *)
(*   object     {"a": 1}              (well-formed JSON, no action key)    *)
(*   triple     three double quotes in a row                               *)
(*   fence_open, fence_close   a line of three backticks (with json)       *)
(*   pydict     {'action': 'read_file'}   (a Python dict, not JSON)        *)
(*   action     {"action": "write_file", "args": {"file_path": "a.txt",    *)
(*               "content": c}}                                            *)
(* and, in a sanitized text only,                                          *)
(*   quote      one double quote, what the triple quote fix leaves of a    *)
(*              triple                                                     *)
(*   broken     an action object whose quotes were escaped or changed, no  *)
(*              longer JSON                                                *)
(***************************************************************************)
MaxPieces == 3

NoCall == ToolCall(NoMatch, EmptyArgs)
Piece(kind, call) == [kind |-> kind, call |-> call]

\* the content argument of the action: plain text, text with the word true in
\* it, text with a single-quoted empty key after a brace
Contents == {"x = 1", "return true", "d = {'': 1}"}
WriteContent(c) == ToolCall("write_file", Args2("file_path", "a.txt", "content", c))

ProsePieces ==
    {Piece(k, NoCall) : k \in {"words", "open", "close", "object", "triple",
                                "fence_open", "fence_close"}}
        \cup {Piece("pydict", ToolCall("read_file", EmptyArgs))}
ActionPieces == {Piece("action", WriteContent(c)) : c \in Contents}
Pieces == ProsePieces \cup ActionPieces

Texts == UNION {[1..n -> Pieces] : n \in 0..MaxPieces}

\* 1. Markdown Cleanup: the three re.sub calls take the fence lines out
MarkdownCleanup(text) ==
    SelectSeq(text, LAMBDA p : p.kind \notin {"fence_open", "fence_close"})

\* 2. Triple Quote Fix: re.sub(r'"""(.*?)"""', fix_triple_quotes, ..., DOTALL).
\* The first triple pairs with the next one; each becomes one double quote
\* and what lies between has its backslashes, double quotes and newlines
\* escaped, the quotes of a JSON object among them.
Escaped(p) == IF p.kind = "action" THEN Piece("broken", NoCall) ELSE p

RECURSIVE fix_triple_quotes(_)
fix_triple_quotes(text) ==
    LET triples == {i \in 1..Len(text) : text[i].kind = "triple"}
    IN  IF triples = {} THEN text
        ELSE LET i == CHOOSE x \in triples : \A y \in triples : x <= y
                 later == {j \in triples : j > i}
             IN  IF later = {} THEN text
                 ELSE LET j == CHOOSE x \in later : \A y \in later : x <= y
                      IN  SubSeq(text, 1, i - 1) \o <<Piece("quote", NoCall)>>
                              \o [k \in 1..(j - i - 1) |-> Escaped(text[i + k])]
                              \o <<Piece("quote", NoCall)>>
                              \o fix_triple_quotes(SubSeq(text, j + 1, Len(text)))

\* clean_text.replace("true", "True").replace("false", "False")
\*           .replace("null", "None"), on one string
PyCompatible(s) == IF s = "return true" THEN "return True" ELSE s

PyCompatibleCall(call) ==
    [call EXCEPT !.args = [k \in DOMAIN @ |-> PyCompatible(@[k])]]

\* 3. ast.literal_eval(py_compatible_text) gives a dict exactly when the
\* whole text is one dict display: a JSON object or a Python dict
LiteralEvalIsDict(text) ==
    /\ Len(text) = 1
    /\ text[1].kind \in {"action", "object", "pydict"}

\* json.dumps(parsed): the dict as JSON text, read from the replaced text
JsonDumps(p) ==
    IF p.kind \in {"action", "pydict"} THEN Piece("action", PyCompatibleCall(p.call))
    ELSE p

\* 4. Fallback: the two quote regexes.  A single quote that follows one of
\* { [ , : and is not followed by a word character becomes a double quote,
\* also inside a JSON string.
HasQuoteAfterBrace(call) == \E k \in DOMAIN call.args : call.args[k] = "d = {'': 1}"

RegexFix(p) ==
    IF p.kind = "action" /\ HasQuoteAfterBrace(p.call) THEN Piece("broken", NoCall)
    ELSE p

sanitize_json_input(raw_text) ==
    LET clean_text == fix_triple_quotes(MarkdownCleanup(raw_text))
    IN  IF LiteralEvalIsDict(clean_text) THEN <<JsonDumps(clean_text[1])>>
        ELSE [i \in 1..Len(clean_text) |-> RegexFix(clean_text[i])]

\* the while loop: raw_decode at the next brace.  An action object is
\* appended; an object without an action key is decoded and skipped with
\* everything inside it (pos = end_index); at any other brace raw_decode
\* raises and pos moves on
RECURSIVE DecodeFrom(_, _, _)
DecodeFrom(text, pos, results) ==
    IF pos > Len(text) THEN results
    ELSE IF text[pos].kind = "action"
         THEN DecodeFrom(text, pos + 1, Append(results, text[pos].call))
    ELSE DecodeFrom(text, pos + 1, results)

\* if not results: re.findall(r"(\{.*?\})") and ast.literal_eval of each
\* match.  A match runs from a brace to the first closing brace after it, so
\* a dict is evaluated whole only if it is flat and no brace before it is
\* still open; open tells whether one is.
RECURSIVE LiteralEvalMatches(_, _, _, _)
LiteralEvalMatches(text, pos, open, results) ==
    IF pos > Len(text) THEN results
    ELSE IF text[pos].kind = "open"
         THEN LiteralEvalMatches(text, pos + 1, TRUE, results)
    ELSE IF text[pos].kind = "pydict" /\ ~open
         THEN LiteralEvalMatches(text, pos + 1, FALSE, Append(results, text[pos].call))
    ELSE IF text[pos].kind \in {"pydict", "close", "object", "action", "broken"}
         THEN LiteralEvalMatches(text, pos + 1, FALSE, results)
    ELSE LiteralEvalMatches(text, pos + 1, open, results)

extract_all_jsons(text) ==
    LET results == DecodeFrom(text, 1, <<>>)
    IN  IF results = <<>> THEN LiteralEvalMatches(text, 1, FALSE, <<>>) ELSE results

\* content_cleaned = sanitize_json_input(content);
\* tool_calls = _extract_all_jsons(content_cleaned)
parse_response(content) ==
    /\ reply = <<"none">>
    /\ \E content_cleaned \in {sanitize_json_input(content)} :
           reply' = <<"parse", content, content_cleaned,
                      extract_all_jsons(content_cleaned)>>
    /\ UNCHANGED <<JOBS, threads, wjob, wpc, wresult>>
    /\ UNCHANGED sessionvars

ParseResponse ==
    /\ reply = <<"none">>
    /\ \E content \in Texts : parse_response(content)

ParseSpec == Init /\ [][ParseResponse]_vars

(***************************************************************************)
(* The tool loops of the three agents, one response each                   *)
(***************************************************************************)
MaxBatch == 3

\* Hephaestus: actions that meet every way a pass can end: a guardrail or an
\* empty cache (write to src/), the file name rule (docs/notes.md), an unknown
\* tool, a finish that is rejected, a finish that is accepted, a command, and
\* a write_file without its required content, to a path the file name rule
\* forbids and to one no guardrail looks at
LoopCalls ==
    {WriteTo("src/main.py"), WriteTo("docs/notes.md"), UnknownTool, FinishCode,
     FinishAnalysis, RunDocker,
     ToolCall("write_file", Args1("file_path", "docs/notes.md")),
     ToolCall("write_file", Args1("file_path", "README.md"))}

LoopResponses == {Response(c, <<>>, NoMalformed) : c \in SeqsUpTo(LoopCalls, MaxBatch)}

HephaestusLoop ==
    /\ reply = <<"none">>
    /\ \E r \in LoopResponses, block \in Caches, raw \in {HandlerOk, HandlerErr},
          spec_exists \in BOOLEAN, ws \in {{}, {" M f1"}} :
           step_check(r, Obs(ws, "feature/x", <<"src/main.py">>,
                             <<"12 title feature/x OPEN">>, <<>>, raw, spec_exists, NoFile),
                      block)

\* TOOLS and TOOL_SCHEMAS of Athena, TOOLS of Artemis
ATHENA_TOOLS ==
    {"get_jira_issue", "list_files", "read_file", "git_setup_workspace", "git_commit",
     "git_push", "create_pr", "git_pull", "save_test_design"}

ATHENA_SCHEMAS ==
    [tool \in ATHENA_TOOLS |->
        CASE tool = "get_jira_issue" -> [required |-> {"issue_key"}, optional |-> {}]
          [] tool = "git_setup_workspace" ->
                [required |-> {"issue_key"}, optional |-> {"base_branch", "agent_name", "job_id"}]
          [] tool = "save_test_design" -> [required |-> {"filename", "content"}, optional |-> {}]
          [] tool = "git_commit" -> [required |-> {"message"}, optional |-> {}]
          [] tool = "git_push" -> [required |-> {}, optional |-> {"branch_name"}]
          [] tool = "git_pull" -> [required |-> {}, optional |-> {"branch_name"}]
          [] tool = "create_pr" ->
                [required |-> {"title"}, optional |-> {"body", "base_branch", "head_branch"}]
          [] tool = "list_files" -> [required |-> {}, optional |-> {"directory"}]
          [] OTHER -> [required |-> {"file_path"}, optional |-> {}]]

ARTEMIS_TOOLS ==
    {"get_jira_issue", "list_files", "read_file", "write_file", "append_file",
     "git_setup_workspace", "git_commit", "git_pull", "git_push", "create_pr",
     "run_robot_test", "install_package", "search_robot_syntax"}

\* Athena's execute_tool_dynamic reaches func(**args)
AthenaInvokes(tool_name, args) ==
    /\ tool_name \in ATHENA_TOOLS
    /\ DOMAIN args \subseteq
          ATHENA_SCHEMAS[tool_name].required \cup ATHENA_SCHEMAS[tool_name].optional
    /\ ATHENA_SCHEMAS[tool_name].required \subseteq DOMAIN args

\* Artemis's execute_tool_dynamic reaches func(**args)
ArtemisInvokes(tool_name, args) == tool_name \in ARTEMIS_TOOLS

\* "content" not in args or len(args.get("content", "")) < 10
ContentMissing(args) == "content" \notin DOMAIN args \/ TextLen(args["content"]) < 10

SiblingState ==
    [step_outputs |-> <<>>, task_finished |-> FALSE, ctl |-> "continue",
     handler_calls |-> <<>>, dispatched |-> <<>>]

\* the body of Athena's "for tool_call in tool_calls"; extracted is what
\* extract_csv_block finds in the response
AthenaPass(acc, i, tool_call, extracted) ==
    LET action == tool_call.action
        args == tool_call.args
    IN
    IF action = "task_complete"
    THEN [acc EXCEPT !.task_finished = TRUE,
                     !.step_outputs = @ \o <<"Task Completed:">>, !.ctl = "break"]
    ELSE
    LET injected == IF action = "git_setup_workspace"
                    THEN Put(Put(args, "job_id", "5f0c1a2b"), "agent_name", "Athena")
                    ELSE args
    IN
    IF action = "save_test_design" /\ ContentMissing(injected) /\ extracted = ""
    THEN [acc EXCEPT !.step_outputs = @ \o <<"Error: CSV content missing">>,
                     !.ctl = "continue"]
    ELSE
    LET final == IF action = "save_test_design" /\ ContentMissing(injected)
                 THEN Put(injected, "content", extracted) ELSE injected
    IN  [acc EXCEPT !.step_outputs = @ \o <<"Tool Output", action>>,
                    !.dispatched = Append(@, i),
                    !.handler_calls = IF AthenaInvokes(action, final)
                                      THEN Append(@, ToolCall(action, final)) ELSE @,
                    !.ctl = "break"]

\* the body of Artemis's "for tool_call in tool_calls"; extracted is what
\* extract_code_block finds in the response
ArtemisPass(acc, i, tool_call, extracted) ==
    LET action == tool_call.action
        args == tool_call.args
    IN
    IF action = "task_complete"
    THEN [acc EXCEPT !.task_finished = TRUE,
                     !.step_outputs = @ \o <<"Task Completed:">>, !.ctl = "break"]
    ELSE
    LET injected == IF action = "git_setup_workspace"
                    THEN Put(Put(args, "job_id", "5f0c1a2b"), "agent_name", "Artemis")
                    ELSE args
    IN
    IF action \notin ARTEMIS_TOOLS
    THEN [acc EXCEPT !.step_outputs = @ \o <<"Error: Tool not found.">>, !.ctl = "continue"]
    ELSE IF action \in {"write_file", "append_file"} /\ ContentMissing(injected) /\ extracted = ""
    THEN [acc EXCEPT !.step_outputs = @ \o <<"Error: content missing.">>, !.ctl = "continue"]
    ELSE
    LET final == IF action \in {"write_file", "append_file"} /\ ContentMissing(injected)
                 THEN Put(injected, "content", extracted) ELSE injected
    IN  [acc EXCEPT !.step_outputs = @ \o <<"Tool Output", action>>,
                    !.dispatched = Append(@, i),
                    !.handler_calls = IF ArtemisInvokes(action, final)
                                      THEN Append(@, ToolCall(action, final)) ELSE @,
                    !.ctl = "break"]

\* for tool_call in tool_calls: ... of Athena or Artemis, from the i-th action on
RECURSIVE RunSibling(_, _, _, _, _)
RunSibling(agent, acc, i, tool_calls, extracted) ==
    IF i > Len(tool_calls) THEN acc
    ELSE LET next == IF agent = "athena"
                     THEN AthenaPass(acc, i, tool_calls[i], extracted)
                     ELSE ArtemisPass(acc, i, tool_calls[i], extracted)
         IN  IF next.ctl = "continue"
             THEN RunSibling(agent, next, i + 1, tool_calls, extracted)
             ELSE next

\* one loop iteration of run_athena_task or run_artemis_task after the model
\* answered with tool_calls
sibling_step(agent, tool_calls, extracted) ==
    /\ reply = <<"none">>
    /\ \E acc \in {RunSibling(agent, SiblingState, 1, tool_calls, extracted)} :
           reply' = <<agent, tool_calls, extracted, None,
                      [acc |-> acc,
                       outcome |-> IF tool_calls = <<>> THEN "thought"
                                   ELSE IF acc.task_finished THEN "finished" ELSE "acted"]>>
    /\ UNCHANGED <<JOBS, threads, wjob, wpc, wresult>>
    /\ UNCHANGED sessionvars

SiblingFinish == ToolCall("task_complete", Args1("summary", "summary-1"))

AthenaCalls ==
    {SiblingFinish, UnknownTool,
     ToolCall("save_test_design", Args2("filename", "t.csv", "content", BlockA)),
     ToolCall("save_test_design", Args1("filename", "t.csv")),
     ToolCall("read_file", Args1("file_path", "a.txt")),
     ToolCall("git_setup_workspace", Args1("issue_key", "K-1"))}

ArtemisCalls ==
    {SiblingFinish, UnknownTool,
     ToolCall("write_file", Args2("file_path", "t.robot", "content", BlockA)),
     ToolCall("write_file", Args1("file_path", "t.robot")),
     ToolCall("read_file", Args1("file_path", "a.txt")),
     ToolCall("run_robot_test", Args1("file_path", "t.robot"))}

AthenaLoop ==
    /\ reply = <<"none">>
    /\ \E tool_calls \in SeqsUpTo(AthenaCalls, MaxBatch), extracted \in {"", "aaaaaaaaa"} :
           sibling_step("athena", tool_calls, extracted)

ArtemisLoop ==
    /\ reply = <<"none">>
    /\ \E tool_calls \in SeqsUpTo(ArtemisCalls, MaxBatch), extracted \in {"", "aaaaaaaaa"} :
           sibling_step("artemis", tool_calls, extracted)

NextLoops ==
    \/ HephaestusLoop
    \/ AthenaLoop
    \/ ArtemisLoop

LoopsSpec == Init /\ [][NextLoops]_vars

(***************************************************************************)
(* The output streams of concurrent jobs.  Each worker, between setting    *)
(* its job RUNNING and publishing the outcome, goes through                *)
(* redirect_stdout_to_stderr and the DualLogger set-up and tear-down of    *)
(* run_hephaestus_task; sys.stdout is one attribute of the process, read   *)
(* and assigned by every worker thread.                                    *)
(***************************************************************************)
\* message written to a stream: where it arrives (sinks), and whether the
\* write raised because a log file in the chain is closed.  DualLogger.write
\* writes to its terminal first and then to its log file.
RECURSIVE DualWrite(_)
DualWrite(stream) ==
    IF stream[1] = "dual"
    THEN LET inner == DualWrite(stdio.terminal[stream[2]])
         IN  IF inner.raised THEN inner
             ELSE IF stream[2] \in stdio.closed
             THEN [sinks |-> inner.sinks, raised |-> TRUE]
             ELSE [sinks |-> inner.sinks \cup {Log(stream[2])}, raised |-> FALSE]
    ELSE [sinks |-> {stream}, raised |-> FALSE]

\* redirect_stdout_to_stderr: original_stdout = sys.stdout
redirect_save(t) ==
    /\ wpc[t] = "run_task"
    /\ stdio' = [stdio EXCEPT !.redirect_original[t] = stdio.sys_stdout]
    /\ wpc' = [wpc EXCEPT ![t] = "redirect_set"]

\* redirect_stdout_to_stderr: sys.stdout = sys.stderr
redirect_set(t) ==
    /\ wpc[t] = "redirect_set"
    /\ stdio' = [stdio EXCEPT !.sys_stdout = Stderr]
    /\ wpc' = [wpc EXCEPT ![t] = "session_save"]

\* run_hephaestus_task: original_stdout = sys.stdout
session_save(t) ==
    /\ wpc[t] = "session_save"
    /\ stdio' = [stdio EXCEPT !.session_original[t] = stdio.sys_stdout]
    /\ wpc' = [wpc EXCEPT ![t] = "logger_new"]

\* DualLogger.__init__: self.terminal = sys.stdout, the log file is opened
logger_new(t) ==
    /\ wpc[t] = "logger_new"
    /\ stdio' = [stdio EXCEPT !.terminal[t] = stdio.sys_stdout]
    /\ wpc' = [wpc EXCEPT ![t] = "logger_set"]

\* run_hephaestus_task: sys.stdout = dual_logger
logger_set(t) ==
    /\ wpc[t] = "logger_set"
    /\ stdio' = [stdio EXCEPT !.sys_stdout = Dual(t)]
    /\ wpc' = [wpc EXCEPT ![t] = "printing"]

\* a print of the session: the text goes to whatever sys.stdout names now;
\* a closed log file in the chain raises ValueError, which leaves the try
session_print(t) ==
    /\ wpc[t] = "printing"
    /\ \E w \in {DualWrite(stdio.sys_stdout)} :
          /\ stdio' = [stdio EXCEPT !.written = @ \cup {<<t, sink>> : sink \in w.sinks}]
          /\ wpc' = [wpc EXCEPT ![t] = IF w.raised THEN "finally" ELSE @]
          /\ wresult' = [wresult EXCEPT ![t] = IF w.raised THEN "ValueError" ELSE @]

\* the session returns (finished, out of steps, model call failed)
session_return(t) ==
    /\ wpc[t] = "printing"
    /\ wpc' = [wpc EXCEPT ![t] = "finally"]
    /\ wresult' = [wresult EXCEPT ![t] = None]
    /\ UNCHANGED stdio

\* finally: sys.stdout = original_stdout
session_restore(t) ==
    /\ wpc[t] = "finally"
    /\ stdio' = [stdio EXCEPT !.sys_stdout = stdio.session_original[t]]
    /\ wpc' = [wpc EXCEPT ![t] = "logger_close"]

\* finally: dual_logger.close()
logger_close(t) ==
    /\ wpc[t] = "logger_close"
    /\ stdio' = [stdio EXCEPT !.closed = @ \cup {t}]
    /\ wpc' = [wpc EXCEPT ![t] = "redirect_restore"]

\* redirect_stdout_to_stderr, finally: sys.stdout = original_stdout; the
\* worker goes on to publish the outcome
redirect_restore(t) ==
    /\ wpc[t] = "redirect_restore"
    /\ stdio' = [stdio EXCEPT !.sys_stdout = stdio.redirect_original[t]]
    /\ wpc' = [wpc EXCEPT ![t] = IF wresult[t] = None THEN "set_completed" ELSE "set_failed"]

\* one step of worker t between RUNNING and the outcome
stream_step(t) ==
    /\ \/ redirect_save(t) /\ UNCHANGED wresult
       \/ redirect_set(t) /\ UNCHANGED wresult
       \/ session_save(t) /\ UNCHANGED wresult
       \/ logger_new(t) /\ UNCHANGED wresult
       \/ logger_set(t) /\ UNCHANGED wresult
       \/ session_print(t)
       \/ session_return(t)
       \/ session_restore(t) /\ UNCHANGED wresult
       \/ logger_close(t) /\ UNCHANGED wresult
       \/ redirect_restore(t) /\ UNCHANGED wresult
    /\ UNCHANGED <<JOBS, threads, wjob, reply>>
    /\ UNCHANGED <<state, exit, step, history, persistent_code_block, agent_action_history,
                   consecutive_test_failures, trace>>

StreamStep == \E t \in Threads : stream_step(t)

NextStreams ==
    \/ CreateJob
    \/ WorkerSetRunning
    \/ StreamStep
    \/ WorkerSetCompleted
    \/ WorkerSetResult
    \/ WorkerSetFailed
    \/ WorkerSetError

StdoutSpec == Init /\ [][NextStreams]_vars

(***************************************************************************)
(* Claims C1 to C10                                                        *)
(***************************************************************************)
\* C1, as stated: in every step whose response carries N >= 2 distinct
\* actions, and after which the session goes on, exactly one tool handler is
\* invoked.
C1_ExactlyOneExecuted ==
    (trace.outcome = "acted" /\ trace.n >= 2) => Len(trace.handler_calls) = 1

\* C1, amended: in every step whose response carries N >= 2 distinct
\* actions, at most one action is dispatched and at most one tool handler is
\* invoked; when one action is dispatched and the session goes on, the result
\* turn given to the model carries the alert that the batch was cut to one
\* action.
C1_AtMostOneExecuted ==
    trace.n >= 2 =>
        /\ Len(trace.dispatched) <= 1
        /\ Len(trace.handler_calls) <= 1
        /\ (trace.outcome = "acted" /\ Len(trace.dispatched) = 1) =>
              /\ history[Len(history)].role = "user"
              /\ \E j \in DOMAIN history[Len(history)].content :
                    history[Len(history)].content[j] = "SYSTEM ALERT: No Batching"

\* C1, witness: a step with two distinct actions in which one handler ran
C1_Witness ==
    /\ trace.outcome = "acted"
    /\ trace.n >= 2
    /\ Len(trace.handler_calls) = 1

\* C2: for every job id, each change of the status in the job table is
\* PENDING to RUNNING, RUNNING to COMPLETED or RUNNING to FAILED.
C2_StatusMovesForward ==
    [][\A id \in DOMAIN JOBS :
          /\ id \in DOMAIN JOBS'
          /\ \/ JOBS'[id].status = JOBS[id].status
             \/ <<JOBS[id].status, JOBS'[id].status>> \in
                   {<<"PENDING", "RUNNING">>, <<"RUNNING", "COMPLETED">>,
                    <<"RUNNING", "FAILED">>}]_vars

\* C3: the completion gate never accepts a finish action in a step during
\* which the workspace holds an uncommitted or untracked change.
C3_NeverAcceptsDirty ==
    \A i \in DOMAIN trace.gates : trace.gates[i] = "accepted" => ~trace.uncommitted

\* C4: a session makes at most max_steps model calls, and a session whose
\* model calls all returned ends with an accepted finish or with the step
\* bound exhausted.
C4_BoundedAndTerminates ==
    /\ step <= max_steps
    /\ (state \in {"returned", "raised"} /\ exit # "llm_error") =>
          exit \in {"task_finished", "max_steps"}

\* C5: when the session ended on the step bound or on a failed model call,
\* the worker leaves the job FAILED with an error.
C5_AbortEndsFailed ==
    \A t \in Threads :
        (wpc[t] = "exited" /\ exit \in {"max_steps", "llm_error"}) =>
            /\ JOBS[wjob[t]].status = "FAILED"
            /\ JOBS[wjob[t]].error # Absent

\* C6: when the session ended with an accepted finish and the worker is
\* through, a poll of the job reports COMPLETED with the summary of a finish
\* action as the result.
C6_DoneReturnsSummary ==
    \A t \in Threads :
        (wpc[t] = "exited" /\ exit = "task_finished") =>
            \E c \in Calls :
                /\ c.action = "task_complete"
                /\ StatusReply(wjob[t]) = <<"COMPLETED", c.args["summary"]>>

\* C7: after a step in which the completion gate rejected a finish action
\* (and no exception left the loop) the session is still in its loop: it has
\* not returned to the worker.
C7_RejectedFinishContinues ==
    (/\ trace.outcome # "raised"
     /\ \E i \in DOMAIN trace.gates : trace.gates[i] \in {"dirty", "rejected"}) =>
        /\ state = "loop"
        /\ exit = ""

\* C8: a sentinel reference met with an empty cache is rejected and no
\* handler is invoked in that step; a sentinel reference is resolved only from
\* a non-empty cache; the cache is empty at session start and after every
\* successful write_file, append_file or edit_file, and otherwise holds what
\* the step captured.
C8_EmptyCacheRejects ==
    /\ (\E i \in DOMAIN trace.cache_refs : trace.cache_refs[i] = "empty") =>
          /\ trace.memory \in {None, ""}
          /\ trace.handler_calls = <<>>
          /\ trace.dispatched = <<>>
    /\ (\E i \in DOMAIN trace.cache_refs : trace.cache_refs[i] = "resolved") =>
          trace.memory \notin {None, ""}
    /\ (trace.outcome # "none" /\ step = 1) => trace.before = None
    /\ trace.outcome \in {"acted", "finished", "thought", "ambiguous"} =>
          persistent_code_block =
             IF \E i \in DOMAIN trace.requested :
                   /\ trace.requested[i].action \in {"write_file", "append_file", "edit_file"}
                   /\ trace.succeeded # <<>>
             THEN None ELSE trace.memory

\* C8, witness: a sentinel reference rejected in the step after a successful
\* write emptied the cache
C8_Witness ==
    /\ step = 2
    /\ \E i \in DOMAIN trace.cache_refs : trace.cache_refs[i] = "empty"
    /\ trace.before = None
    /\ Len(agent_action_history) = 1
    /\ agent_action_history[1].action = "write_file"

\* C9: no handler is invoked with an argument equal to the sentinel, and an
\* argument the model did not write as the sentinel is not replaced by the
\* cached payload.
C9_NoSentinelReachesHandler ==
    /\ \A i \in DOMAIN trace.handler_calls :
          \A k \in DOMAIN trace.handler_calls[i].args :
              trace.handler_calls[i].args[k] # Sentinel
    /\ \A i \in DOMAIN trace.requested :
          LET asked == trace.requested[i].args
              final == agent_action_history[Len(agent_action_history)
                                            - Len(trace.requested) + i].args
          IN  \A k \in DOMAIN asked \cap DOMAIN final :
                  (asked[k] # Sentinel /\ final[k] # asked[k]) =>
                      final[k] \notin {Strip(b) : b \in Blocks}

\* C10: when the response carries one payload block and a write_file whose
\* content is the sentinel, and that action is executed, the handler receives
\* the text of that block, and the cache is empty after a successful write.
C10_WriteReceivesOwnBlock ==
    \A i \in DOMAIN trace.requested :
        LET asked == trace.requested[i]
            final == agent_action_history[Len(agent_action_history)
                                          - Len(trace.requested) + i]
        IN  (/\ asked.action = "write_file"
             /\ Get(asked.args, "content", "") = Sentinel
             /\ Len(trace.blocks) = 1
             /\ trace.handler_calls # <<>>) =>
                /\ final.args["content"] = Strip(trace.blocks[1])
                /\ trace.succeeded # <<>> => persistent_code_block = None

(***************************************************************************)
(* Claims C11 to C20                                                       *)
(***************************************************************************)
\* C11: a payload that an earlier step dispatched to a write on one file
\* (and kept, because that write did not succeed) is not delivered by a later
\* step, which captured no block of its own, to a file action on another file.
C11_NoStaleDelivery ==
    \A i \in DOMAIN trace.requested :
        LET at == Len(agent_action_history) - Len(trace.requested) + i
            final == agent_action_history[at]
        IN  (/\ final.action \in {"write_file", "append_file", "edit_file"}
             /\ \E j \in DOMAIN trace.cache_refs : trace.cache_refs[j] = "resolved"
             /\ trace.blocks = <<>>
             /\ trace.memory = trace.before) =>
                \A j \in 1..(at - 1) :
                    (/\ agent_action_history[j].action \in {"write_file", "append_file"}
                     /\ Get(agent_action_history[j].args, "content", "") = trace.before) =>
                        Get(agent_action_history[j].args, "file_path", "")
                            = Get(final.args, "file_path", "")

\* C12, as stated: for every registered tool, a call with a key outside the
\* schema's required and optional lists is rejected as invalid arguments and
\* the handler is not invoked.
C12_OutsideRequiredOptionalRejected ==
    reply[1] = "dispatch" =>
        LET tool_name == reply[2]
            args == reply[3]
            res == reply[4]
            outside == DOMAIN args \ (TOOL_SCHEMAS[tool_name].required
                                      \cup TOOL_SCHEMAS[tool_name].optional)
        IN  (tool_name \in TOOLS /\ outside # {}) =>
                /\ ~res.invoked
                /\ res.output[1] = "[ERROR] Invalid arguments"

\* C12, amended: for every registered tool, a call with a key outside the
\* schema's required and optional lists, file_path apart when the schema
\* flags it, fails with the invalid-arguments error naming exactly the
\* offending keys, and the handler is not invoked.
C12_UnknownArgsRejected ==
    reply[1] = "dispatch" =>
        LET tool_name == reply[2]
            args == reply[3]
            res == reply[4]
            outside == DOMAIN args \ (TOOL_SCHEMAS[tool_name].required
                                      \cup TOOL_SCHEMAS[tool_name].optional
                                      \cup (IF TOOL_SCHEMAS[tool_name].file_path
                                            THEN {"file_path"} ELSE {}))
        IN  (tool_name \in TOOLS /\ outside # {}) =>
                /\ ~res.invoked
                /\ ~res.success
                /\ res.output[1] = "[ERROR] Invalid arguments"
                /\ {res.output[j] : j \in 2..Len(res.output)} = outside

\* C12, witness: create_pr called with title and the key force
C12_Witness ==
    /\ reply[1] = "dispatch"
    /\ reply[2] = "create_pr"
    /\ DOMAIN reply[3] = {"title", "force"}
    /\ reply[4].output = <<"[ERROR] Invalid arguments", "force">>

\* C13, as stated: a call passes validation only if its key set equals the
\* union of the schema's required and optional lists.
C13_OkOnlyIfExactKeys ==
    reply[1] = "dispatch" =>
        LET tool_name == reply[2]
            args == reply[3]
            res == reply[4]
            passed == res.output = <<>> \/ res.output[1] \notin
                          {"Error: Unknown tool", "[ERROR] Invalid arguments",
                           "[ERROR] Missing required arguments"}
        IN  (tool_name \in TOOLS /\ passed) =>
                DOMAIN args = TOOL_SCHEMAS[tool_name].required
                                  \cup TOOL_SCHEMAS[tool_name].optional

\* C13, amended: a call passes validation only if its key set holds every
\* required key and no key outside required, optional and the flagged
\* file_path; a call with any other key set is rejected and its handler is
\* not invoked.
C13_OkOnlyIfKeysFit ==
    reply[1] = "dispatch" =>
        LET tool_name == reply[2]
            args == reply[3]
            res == reply[4]
            passed == res.output = <<>> \/ res.output[1] \notin
                          {"Error: Unknown tool", "[ERROR] Invalid arguments",
                           "[ERROR] Missing required arguments"}
            required == TOOL_SCHEMAS[tool_name].required
            allowed == required \cup TOOL_SCHEMAS[tool_name].optional
                           \cup (IF TOOL_SCHEMAS[tool_name].file_path
                                 THEN {"file_path"} ELSE {})
            fits == required \subseteq DOMAIN args /\ DOMAIN args \subseteq allowed
        IN  tool_name \in TOOLS =>
                /\ passed <=> fits
                /\ ~fits => ~res.invoked /\ ~res.success

\* C13, witness: create_pr passes validation with title alone, and fails it
\* with body alone
C13_Witness ==
    /\ reply[1] = "dispatch"
    /\ reply[2] = "create_pr"
    /\ \/ DOMAIN reply[3] = {"title"} /\ reply[4].invoked
       \/ /\ DOMAIN reply[3] = {"body"}
          /\ reply[4].output = <<"[ERROR] Missing required arguments", "title">>

\* C14: when the handler of a dispatched action raises, the call returns a
\* failure record (no success, the cache is not flushed), the step ends with
\* a result turn that carries the error text, and the session is still in
\* its loop with its worker running it.
C14_HandlerExceptionFedBack ==
    trace.raised # <<>> =>
        /\ trace.outcome = "acted"
        /\ trace.succeeded = <<>>
        /\ persistent_code_block = trace.memory
        /\ state = "loop"
        /\ \E t \in Threads : wpc[t] = "run_task"
        /\ LET turn == history[Len(history)]
           IN  /\ turn.role = "user"
               /\ \E j \in 1..(Len(turn.content) - 1) :
                      /\ turn.content[j] = "Tool Output:"
                      /\ turn.content[j + 1] = "Error executing"

\* C14, witness: the handler of run_command raised in the first step and the
\* model was called again
C14_Witness ==
    /\ step = 2
    /\ state = "waiting"
    /\ Len(agent_action_history) = 1
    /\ agent_action_history[1].action = "run_command"
    /\ history[Len(history)].content = <<"Tool Output:", "Error executing", "run_command">>

\* C15: whatever the model answers, the step ends inside the loop: the
\* session never leaves its loop through an exception, and no worker ever
\* receives an exception from the session.
C15_NothingEscapesTheLoop ==
    /\ state # "raised"
    /\ exit # "exception"
    /\ \A t \in Threads : wresult[t] # "AttributeError"

\* C16: a failed model call is not retried by the client (one request at
\* most), and once a model call of the session has failed the session has
\* ended: it is neither back in its loop nor waiting for another model call.
C16_ModelFailureAborts ==
    LET failures == {i \in DOMAIN history :
                        /\ history[i].role = "assistant"
                        /\ history[i].content \in
                               {<<query_qwen(net).content>> : net \in FailedNets}}
    IN  /\ trace.attempts <= 1
        /\ failures # {} => state \notin {"loop", "waiting"}

\* C17: a poll of a job whose record is neither COMPLETED nor FAILED answers
\* that the job is still running, from the moment the record exists.
C17_PollBeforeCompletionRunning ==
    [][(/\ reply' # reply
        /\ reply'[1] \in DOMAIN JOBS
        /\ JOBS[reply'[1]].status \notin {"COMPLETED", "FAILED"})
           => reply'[2] = "still running"]_vars

\* C18: once a poll of a job would report it completed, a poll after any
\* further step reports the same: the record is not removed, not replaced
\* and its result does not change.
C18_CompletedStaysCompleted ==
    [][\A id \in JobIds :
          StatusReply(id)[1] = "COMPLETED" =>
              /\ id \in DOMAIN JOBS'
              /\ StatusReply(id)' = StatusReply(id)]_vars

\* C19: a step that is not a create changes a record of the job table only
\* as a step of the worker started for the job the record belongs to (the
\* latest job created under that id), and a poll changes no record.
C19_OnlyOwnWorkerWrites ==
    [][/\ reply' # reply => JOBS' = JOBS
       /\ \A id \in DOMAIN JOBS :
             (threads' = threads /\ JOBS'[id] # JOBS[id]) =>
                 \E t \in 1..threads :
                     /\ wpc'[t] # wpc[t]
                     /\ wjob[t] = id
                     /\ \A u \in 1..threads : wjob[u] = id => u <= t]_vars

\* C20: a finish action in code mode, judged on the branch feature/x with
\* src/main.py changed, is accepted only if the remote lists an open pull
\* request for that branch.
C20_FinishNeedsPullRequest ==
    reply[1] = "gate" =>
        LET args == reply[2]
            obs == reply[3]
            pass == reply[5]
        IN  (/\ pass.task_finished
             /\ Get(args, "mode", "code") = "code"
             /\ obs.branch = "feature/x"
             /\ obs.changed = <<"src/main.py">>) => ~NoPullRequest(obs)

(***************************************************************************)
(* Claims C21 to C30                                                       *)
(***************************************************************************)
\* C21: a finish action in code mode is accepted only when git reports a
\* branch other than main and at least one file that differs from main.
C21_FinishNeedsTrackedChange ==
    reply[1] = "gate" =>
        LET args == reply[2]
            obs == reply[3]
            pass == reply[5]
        IN  (pass.task_finished /\ Get(args, "mode", "code") = "code") =>
                /\ obs.branch \notin {"main", "master", "HEAD"}
                /\ obs.changed # <<>>

\* C22: a finish action in code mode is accepted only if the handler of a
\* deployment command was invoked earlier in the session and the service
\* list shows the deployed service at the time of the finish.
C22_FinishNeedsDeployment ==
    reply[1] = "gate" =>
        LET args == reply[2]
            obs == reply[3]
            earlier == reply[4]
            pass == reply[5]
        IN  (pass.task_finished /\ Get(args, "mode", "code") = "code") =>
                /\ \E i \in DOMAIN earlier.handler_calls :
                       /\ earlier.handler_calls[i].action = "run_command"
                       /\ IsDeployCommand(earlier.handler_calls[i].args["command"])
                /\ ShowsService(obs.docker)

\* C23: a finish action accepted under any value of its mode argument also
\* passes the tracked-change, pull-request and deployment checks, that is the
\* checks the gate makes in code mode: the mode does not decide acceptance.
C23_ModeDoesNotDecide ==
    reply[1] = "gate" =>
        LET args == reply[2]
            obs == reply[3]
            earlier == reply[4]
            pass == reply[5]
        IN  pass.task_finished =>
                validation_error(Put(args, "mode", "code"), obs,
                                 earlier.agent_action_history) = ""

\* C24: a response whose actions are all file actions on files other than
\* .md files, and whose second-longest payload block has at least 20% of the
\* length of the longest, is rejected as ambiguous: nothing is dispatched and
\* the cache keeps its content, whatever the number of actions.
C24_TwentyPercentIsAmbiguous ==
    reply[1] = "step" =>
        LET r == reply[2]
            block == reply[4]
            res == reply[5]
            sorted == SortByLenDesc(valid_code_blocks(r.blocks))
        IN  (/\ r.calls # <<>>
             /\ \A i \in DOMAIN r.calls :
                    /\ EndsWithFile(r.calls[i].action)
                    /\ ~EndsWithMd(r.calls[i].args["file_path"])
             /\ Len(sorted) >= 2
             /\ 5 * TextLen(sorted[2]) >= TextLen(sorted[1])) =>
                /\ res.outcome = "ambiguous"
                /\ res.acc.dispatched = <<>>
                /\ res.acc.persistent_code_block = block

\* C25: the handler of write_file is never invoked on a file that exists with
\* new content shorter than half of the existing content.
C25_NoLargeDelete ==
    reply[1] = "step" =>
        LET obs == reply[3]
            res == reply[5]
        IN  \A i \in DOMAIN res.acc.handler_calls :
                LET c == res.acc.handler_calls[i] IN
                (c.action = "write_file" /\ obs.old_len # NoFile) =>
                    2 * TextLen(c.args["content"]) >= obs.old_len

\* C26: the handler of write_file, append_file or edit_file is never invoked
\* on a file under src/ or tests/ while docs/specs.md does not exist.
C26_DesignBeforeCode ==
    reply[1] = "step" =>
        LET obs == reply[3]
            res == reply[5]
        IN  \A i \in DOMAIN res.acc.handler_calls :
                LET c == res.acc.handler_calls[i] IN
                (/\ c.action \in {"write_file", "append_file", "edit_file"}
                 /\ StartsWithSrcOrTests(SafePath(c.args["file_path"]))) => obs.spec_exists

\* C27: the handler of a file action is never invoked on a file under docs/
\* other than docs/specs.md; the step that asks for one ends with the
\* filename error as its user turn.
C27_OnlyCanonicalSpecName ==
    reply[1] = "step" =>
        LET res == reply[5]
        IN  /\ \A i \in DOMAIN res.acc.handler_calls :
                   LET path == SafePath(res.acc.handler_calls[i].args["file_path"]) IN
                   EndsWithFile(res.acc.handler_calls[i].action) =>
                       ~(StartsWithDocs(path) /\ path # "docs/specs.md")
            /\ (\E j \in DOMAIN res.acc.step_outputs :
                    res.acc.step_outputs[j] = "FILENAME ERROR") =>
                   LET turn == res.acc.history[Len(res.acc.history)] IN
                   /\ res.acc.dispatched = <<>>
                   /\ turn.role = "user"
                   /\ \E j \in DOMAIN turn.content : turn.content[j] = "FILENAME ERROR"

\* C28: in a session whose every step dispatched one action, a pytest run
\* that did not pass, when the pytest run before it did not pass either,
\* gets a result turn with the directive to stop editing, and the directive
\* names the file of the latest write or edit of the session.
C28_BreakerAfterTwoFailures ==
    (state = "loop" /\ Len(history) = 2 + 2 * Len(agent_action_history)) =>
        LET aah == agent_action_history
            result(k) == history[2 + 2 * k].content
            failed(k) == /\ aah[k] = RunPytest
                         /\ \A j \in DOMAIN result(k) : result(k)[j] # "[SUCCESS] done"
            runs_before(k) == {j \in 1..(k - 1) : aah[j] = RunPytest}
            writes_before(k) == {j \in 1..(k - 1) : aah[j].action = "write_file"}
            latest(S) == CHOOSE j \in S : \A i \in S : i <= j
        IN  \A k \in DOMAIN aah :
                (/\ failed(k)
                 /\ runs_before(k) # {}
                 /\ failed(latest(runs_before(k)))) =>
                    \E j \in 1..(Len(result(k)) - 1) :
                        /\ result(k)[j] = "SYSTEM INTERVENTION: STOP editing"
                        /\ writes_before(k) # {} =>
                               result(k)[j + 1] = aah[latest(writes_before(k))].args["file_path"]

\* C29: every step of a session leaves the turns already in the history where
\* they are, with their role and content, and only adds turns after them;
\* from the start of the session the first two turns are the system prompt
\* and the task.
C29_HistoryAppendOnly ==
    [][/\ Len(history') >= Len(history)
       /\ SubSeq(history', 1, Len(history)) = history
       /\ state' # "idle" =>
              /\ Len(history') >= 2
              /\ history'[1] = SYSTEM_PROMPT
              /\ history'[2] = TaskTurn]_vars

\* C29, witness: the second step of a session has added its turns after
\* those of the first
C29_Witness ==
    /\ step = 2
    /\ state = "loop"
    /\ trace.outcome = "acted"
    /\ Len(history) >= 6

\* C30, as stated: a text that contains exactly one well-formed action object
\* is parsed to exactly that action, its arguments unchanged, whatever stands
\* around it.
C30_ExactlyTheOneAction ==
    reply[1] = "parse" =>
        LET text == reply[2]
            objects == {i \in 1..Len(text) : text[i].kind = "action"}
        IN  Cardinality(objects) = 1 =>
                \A i \in objects : reply[4] = <<text[i].call>>

(***************************************************************************)
(* Claims C31 to C40                                                       *)
(***************************************************************************)
\* C31, as stated: the action dispatched in a step is the first of the
\* distinct actions of the response; when the first action is an unknown tool
\* or a rejected finish, no later action of the response is dispatched in its
\* place.
C31_OnlyTheFirstAction ==
    \A k \in DOMAIN trace.dispatched : trace.dispatched[k] = 1

\* C32: in one loop iteration of Hephaestus, Athena or Artemis, whatever the
\* response carries (unknown tools, finish actions that are rejected, sentinel
\* references met with an empty cache, actions a guardrail rejects, in any
\* order), at most one action is dispatched and at most one tool handler is
\* invoked on behalf of an action; none is invoked when the response is a
\* thought or is rejected as ambiguous, nor when no action is dispatched.
C32_AtMostOneHandler ==
    reply[1] \in {"step", "athena", "artemis"} =>
        LET acc == reply[5].acc
        IN  /\ Len(acc.handler_calls) <= 1
            /\ Len(acc.dispatched) <= 1
            /\ reply[5].outcome \in {"thought", "ambiguous"} => acc.handler_calls = <<>>
            /\ acc.dispatched = <<>> => acc.handler_calls = <<>>

\* C32, witness: a Hephaestus response of three actions, an unknown tool, a
\* finish that the gate rejected and a command, of which one handler ran
C32_Witness ==
    /\ reply[1] = "step"
    /\ Len(reply[2].calls) = 3
    /\ reply[5].acc.gates = <<"rejected">>
    /\ \E i \in 1..3 : reply[2].calls[i] = UnknownTool
    /\ Len(reply[5].acc.handler_calls) = 1

\* C33, as stated: when the first action of a response is a registered tool
\* whose arguments hold no sentinel and do not fit its schema (a key outside
\* the schema, or a required key missing), the step's result reports the
\* validation error and no guardrail message: the schema is validated before
\* the guardrail chain runs.
C33_ValidationBeforeGuardrails ==
    reply[1] = "step" =>
        LET calls == reply[2].calls
            so == reply[5].acc.step_outputs
        IN  (/\ calls # <<>>
             /\ calls[1].action \in TOOLS
             /\ ~MentionsSentinel(calls[1].args)
             /\ UnknownArgs(calls[1].action, calls[1].args)
                    \cup MissingArgs(calls[1].action, calls[1].args) # {})
            => /\ \E j \in DOMAIN so :
                     so[j] \in {"[ERROR] Invalid arguments", "[ERROR] Missing required arguments"}
               /\ \A j \in DOMAIN so :
                     so[j] \notin {"FILENAME ERROR", "POLICY VIOLATION", "SAFETY BLOCK"}

\* C34, as stated: a step in which an action was parsed and after which the
\* session goes on adds exactly two turns to the history, the raw response
\* as an assistant turn and then one result turn that is not empty.
C34_OneResponseOneResult ==
    reply[1] = "step" =>
        LET h == reply[5].acc.history
        IN  reply[5].outcome = "acted" =>
                /\ Len(h) = 4
                /\ SubSeq(h, 1, 2) = <<SYSTEM_PROMPT, TaskTurn>>
                /\ h[3] = RawTurn
                /\ h[4].role = "user"
                /\ h[4].content # <<>>

\* C35, as stated: a step whose response holds no action (none parsed, none
\* recovered from a malformed one) appends the raw response as an assistant
\* turn and nothing else, invokes no handler, and leaves the session in its
\* loop.
C35_ThoughtAddsOneTurn ==
    reply[1] = "step" =>
        LET r == reply[2]
            res == reply[5]
        IN  (r.calls = <<>> /\ r.malformed = NoMalformed) =>
                /\ res.acc.history = <<SYSTEM_PROMPT, TaskTurn, RawTurn>>
                /\ res.acc.handler_calls = <<>>
                /\ res.outcome = "thought"

\* C36, as stated: when a response that does not finish the task carries
\* two or more payload blocks and is not rejected as ambiguous, the cache
\* holds after the capture the last payload block of the response.
C36_LastBlockCaptured ==
    reply[1] = "step" =>
        LET r == reply[2]
            res == reply[5]
            payload == valid_code_blocks(r.blocks)
        IN  (/\ Len(payload) >= 2
             /\ ~is_task_finishing(r.calls)
             /\ res.outcome \notin {"ambiguous", "raised"})
            => res.memory = Strip(payload[Len(payload)])

\* C37, as stated: a poll that reports a job COMPLETED reads a record whose
\* result has been stored, and a poll that reports it FAILED reads a record
\* whose error has been stored.
C37_StatusAndResultTogether ==
    [][(reply' # reply /\ reply'[1] \in DOMAIN JOBS) =>
           /\ reply'[2] = "COMPLETED" => JOBS[reply'[1]].result # Absent
           /\ reply'[2] = "FAILED" => JOBS[reply'[1]].error # Absent]_vars

\* C38, as stated: no text printed by a session reaches the stream the
\* process started with or the log file of a job with another id, and once
\* every worker that was started has exited sys.stdout is that first stream
\* again.
C38_SessionOutputStaysPrivate ==
    /\ \A w \in stdio.written :
          /\ w[2] # Stdout
          /\ w[2][1] = "log" => wjob[w[2][2]] = wjob[w[1]]
    /\ (threads >= 1 /\ \A t \in 1..threads : wpc[t] = "exited") =>
          stdio.sys_stdout = Stdout


\* C39: under a fairly scheduled worker whose model and tool calls return,
\* every job that has a record in the table eventually has the status
\* COMPLETED or FAILED.
C39_EveryJobEnds ==
    \A job_id \in JobIds :
        (job_id \in DOMAIN JOBS) ~>
            (job_id \in DOMAIN JOBS /\ JOBS[job_id].status \in {"COMPLETED", "FAILED"})

\* a job whose session used up its steps and whose worker then published an
\* outcome and exited
C39_Witness ==
    \E t \in Threads :
        /\ wpc[t] = "exited"
        /\ exit = "max_steps"
        /\ step = max_steps
        /\ JOBS[wjob[t]].status = "COMPLETED"


\* C40, as stated: a call of a registered tool whose argument names pass both
\* checks of the validator (no name outside the valid keys, every required
\* name present) reaches its handler: func(**args) does not fail on a missing
\* or unexpected parameter.
C40_ValidatedCallsBind ==
    (reply[1] = "dispatch" /\ reply[2] \in TOOLS) =>
        LET tool_name == reply[2]
            keys == DOMAIN reply[3]
            passed == /\ keys \subseteq ValidKeys(tool_name)
                      /\ TOOL_SCHEMAS[tool_name].required \subseteq keys
        IN  passed => reply[4].output # <<"Error executing", tool_name, "TypeError">>

=============================================================================
